---- MODULE Spec2Model ----
(***************************************************************************)
(* Pyzard: manifest-driven batch copy / cut / rename of files and folders  *)
(* with a conflict policy, a staging area of backups (.temp_backup) and a  *)
(* journal (.operation_history.json) that undo_last_operation reads.       *)
(*                                                                         *)
(* The filesystem is a function from the existing paths to "dir" or to a   *)
(* file's content.  A path is a sequence of names; a name is a sequence of *)
(* strings, so that the copy suffix of generate_copy_name and the          *)
(* backup_<basename>_<random> names of the staging area are built from the *)
(* name they derive from, as the code builds them.                         *)
(***************************************************************************)
EXTENDS Naturals, Sequences, FiniteSets, TLC

\* ------------------------------------------------------------------ bounds
\* Batch driver calls in one run of the program.
MaxBatches == 2
\* Manifest rows over all the batches of one run.
MaxRows == 2
\* Filesystem calls that raise for a reason outside the program
\* (permissions, a full disk, another device) in one run.
MaxFaults == 1

\* --------------------------------------------------------------- the paths
Nm(s) == <<s>>
SRC == <<Nm("src")>>
DST == <<Nm("dst")>>
NOSRC == <<Nm("nosrc")>>
\* temp_backup_dir = ".temp_backup", relative to the working directory
TEMP_BACKUP_DIR == <<Nm(".temp_backup")>>

DIR == "dir"

dirname(p) == SubSeq(p, 1, Len(p) - 1)
basename(p) == p[Len(p)]
join(p, nm) == Append(p, nm)

IsPrefix(p, q) == Len(p) <= Len(q) /\ SubSeq(q, 1, Len(p)) = p
\* q, a path under old, carried under new
Rebase(q, old, new) == new \o SubSeq(q, Len(old) + 1, Len(q))

exists(f, p) == p \in DOMAIN f
isdir(f, p) == p \in DOMAIN f /\ f[p] = DIR
isfile(f, p) == p \in DOMAIN f /\ f[p] # DIR
Under(f, p) == {q \in DOMAIN f : IsPrefix(p, q)}
Restrict(f, S) == [q \in S |-> f[q]]
Without(f, S) == Restrict(f, DOMAIN f \ S)
\* what is at and under p, by the path relative to p
Tree(f, p) == [q \in {SubSeq(x, Len(p) + 1, Len(x)) : x \in Under(f, p)} |-> f[p \o q]]
listdir(f, p) == {q \in DOMAIN f : Len(q) = Len(p) + 1 /\ IsPrefix(p, q)}

\* str.lower() on a name: the one upper-case name of the model is "A"
lower(nm) == IF nm = Nm("A") THEN Nm("a") ELSE nm

\* ----------------------------------------------------- the library calls
\* Each returns [ok, fs]: ok = FALSE is the call raising, fs the filesystem
\* it leaves.
Ok(f) == [ok |-> TRUE, fs |-> f]
Raise(f) == [ok |-> FALSE, fs |-> f]

Ancestors(p) == {SubSeq(p, 1, n) : n \in 1..Len(p)}

\* os.makedirs(p, exist_ok=True)
os_makedirs(f, p) ==
    IF \E a \in Ancestors(p) : isfile(f, a)
    THEN Raise(f)
    ELSE Ok([q \in DOMAIN f \cup Ancestors(p) |->
                IF q \in DOMAIN f THEN f[q] ELSE DIR])

\* shutil.copy2(s, d): into d when d is a directory
shutil_copy2(f, s, d) ==
    LET rd == IF isdir(f, d) THEN join(d, basename(s)) ELSE d
    IN  IF ~isfile(f, s) \/ rd = s \/ isdir(f, rd) \/ ~isdir(f, dirname(rd))
        THEN Raise(f)
        ELSE Ok([q \in DOMAIN f \cup {rd} |-> IF q = rd THEN f[s] ELSE f[q]])

\* shutil.copytree(s, d): d must not exist, its parents are created
shutil_copytree(f, s, d) ==
    IF ~isdir(f, s) \/ exists(f, d) \/ IsPrefix(s, d)
    THEN Raise(f)
    ELSE LET m == os_makedirs(f, d)
             new == {Rebase(q, s, d) : q \in Under(f, s)}
         IN  IF ~m.ok THEN Raise(f)
             ELSE Ok([q \in DOMAIN m.fs \cup new |->
                        IF q \in new THEN f[Rebase(q, d, s)] ELSE m.fs[q]])

\* shutil.rmtree(p)
shutil_rmtree(f, p) ==
    IF ~isdir(f, p) THEN Raise(f) ELSE Ok(Without(f, Under(f, p)))

\* os.remove(p)
os_remove(f, p) ==
    IF ~isfile(f, p) THEN Raise(f) ELSE Ok(Without(f, {p}))

\* os.rename(s, d) as shutil.move calls it (d is not an existing directory
\* unless d = s): a file replaces a file, a directory replaces nothing
os_rename(f, s, d) ==
    IF ~exists(f, s) THEN Raise(f)
    ELSE IF s = d THEN Ok(f)
    ELSE IF ~isdir(f, dirname(d)) \/ IsPrefix(s, d) THEN Raise(f)
    ELSE IF exists(f, d) /\ (isdir(f, s) \/ isdir(f, d)) THEN Raise(f)
    ELSE LET old == Under(f, s)
             new == {Rebase(q, s, d) : q \in old}
         IN  Ok([q \in (DOMAIN f \ old) \cup new |->
                    IF q \in new THEN f[Rebase(q, d, s)] ELSE f[q]])

\* shutil.move(s, d): into d when d is a directory; os.rename, and when that
\* raises the copy-then-delete, which on one device raises as well
shutil_move(f, s, d) ==
    IF isdir(f, d) /\ s # d /\ exists(f, join(d, basename(s)))
    THEN Raise(f)
    ELSE os_rename(f, s, IF isdir(f, d) /\ s # d THEN join(d, basename(s)) ELSE d)

\* what a shutil.move that raises for an outside reason can leave: nothing
\* done, or (another device) the copy made and the source not yet deleted
MoveFaults(f, s, d) ==
    LET rd == IF isdir(f, d) /\ s # d THEN join(d, basename(s)) ELSE d
        cp == IF isdir(f, s) THEN shutil_copytree(f, s, rd) ELSE shutil_copy2(f, s, rd)
    IN  {f} \cup (IF cp.ok THEN {cp.fs} ELSE {})

\* ------------------------------------------------------ conflict handling
\* f"{name}_副本{counter}{ext}": the name with the copy suffix of counter n
CopyName(nm, n) == nm \o <<"copy">> \o [i \in 1..n |-> "i"]

\* the sibling with the suffix of the counter given, whether it exists or not
ProbeOnce(f, directory, name, counter) == join(directory, CopyName(name, counter))

\* the while loop of generate_copy_name: counter, counter + 1, ... until the
\* sibling with that suffix does not exist
RECURSIVE ProbeCopyName(_, _, _, _)
ProbeCopyName(f, directory, name, counter) ==
    LET new_path == join(directory, CopyName(name, counter))
    IN  IF ~exists(f, new_path) THEN new_path
        ELSE ProbeCopyName(f, directory, name, counter + 1)

\* the path itself given for its copy name
generate_same_name(f, original_path) == original_path

\* generate_copy_name(original_path)
generate_copy_name(f, original_path) ==
    ProbeCopyName(f, dirname(original_path), basename(original_path), 1)

\* the None that resolve_conflict returns for a skipped item
None == <<>>

\* a policy that is none of the four, and merge for a file, taken for the
\* overwrite policy
resolve_default_over(f, source_path, target_path, conflict_mode, is_folder) == IF ~exists(f, target_path) THEN target_path ELSE IF conflict_mode = "skip" THEN None ELSE IF conflict_mode = "copy" THEN generate_copy_name(f, target_path) ELSE target_path

\* the overwrite policy taken for the copy policy
resolve_uncovered(f, source_path, target_path, conflict_mode, is_folder) == IF ~exists(f, target_path) THEN target_path ELSE IF conflict_mode = "skip" THEN None ELSE IF conflict_mode = "merge" /\ is_folder THEN target_path ELSE generate_copy_name(f, target_path)

\* the skip policy taken for the overwrite policy
resolve_unskipped(f, source_path, target_path, conflict_mode, is_folder) == IF exists(f, target_path) /\ conflict_mode = "copy" THEN generate_copy_name(f, target_path) ELSE target_path

\* the policy applied without looking whether the target exists
resolve_unseen(f, source_path, target_path, conflict_mode, is_folder) == IF conflict_mode = "skip" THEN None ELSE IF conflict_mode \in {"overwrite", "merge"} THEN target_path ELSE generate_copy_name(f, target_path)

\* resolve_conflict(source_path, target_path, conflict_mode, is_folder)
resolve_conflict(f, source_path, target_path, conflict_mode, is_folder) ==
    IF ~exists(f, target_path) THEN target_path
    ELSE IF conflict_mode = "skip" THEN None
    ELSE IF conflict_mode = "overwrite" THEN target_path
    ELSE IF conflict_mode = "copy" THEN generate_copy_name(f, target_path)
    ELSE IF conflict_mode = "merge" /\ is_folder THEN target_path
    ELSE generate_copy_name(f, target_path)

\* CONFLICT_MODES
CONFLICT_MODES == {"skip", "overwrite", "copy", "merge"}

\* merge_folders(source_folder, target_folder) over the entries still to do;
\* an entry that raises ends the merge with what was written so far
RECURSIVE MergeItems(_, _, _, _)
merge_folders(f, source_folder, target_folder) ==
    IF ~isdir(f, source_folder) THEN Raise(f)
    ELSE MergeItems(f, listdir(f, source_folder), source_folder, target_folder)

\* the entries of the source laid over the target, counterparts written over
CopyItemsOver(f, items, source_folder, target_folder) == Ok([q \in DOMAIN f \cup {Rebase(x, source_folder, target_folder) : x \in Under(f, source_folder)} |-> IF \E x \in Under(f, source_folder) : Rebase(x, source_folder, target_folder) = q THEN f[Rebase(q, target_folder, source_folder)] ELSE f[q]])

MergeItems(f, items, source_folder, target_folder) ==
    IF items = {} THEN Ok(f)
    ELSE LET source_item == CHOOSE x \in items : TRUE
             target_item == join(target_folder, basename(source_item))
             r == IF isdir(f, source_item)
                  THEN IF ~exists(f, target_item)
                       THEN shutil_copytree(f, source_item, target_item)
                       ELSE merge_folders(f, source_item, target_item)
                  ELSE IF ~exists(f, target_item)
                       THEN shutil_copy2(f, source_item, target_item)
                       ELSE shutil_copy2(f, source_item,
                                         generate_copy_name(f, target_item))
         IN  IF ~r.ok THEN r
             ELSE MergeItems(r.fs, items \ {source_item}, source_folder, target_folder)

\* ---------------------------------------------------------------- state
VARIABLES
    fs,                 \* the filesystem
    journal,            \* the records of .operation_history.json, oldest first
    pc,                 \* "idle", or where the running batch driver stands
    args,               \* the running driver and its arguments
    todo,               \* manifest rows (found folders) not yet processed
    cur,                \* the cut item whose backup is staged, not yet moved
    copied,             \* copied_files / copied_folders / renamed targets
    source_paths,
    backup_paths,
    error_message,      \* NoError, or the message of the exception caught
    nbatch,             \* driver calls so far
    nrows,              \* manifest rows handed to the drivers so far
    nfaults,            \* items on which an outside failure was injected
    trail,              \* the last operations, newest last
    fs0,                \* the filesystem when the last batch began
    raised,             \* the last batch reached its except branch
    removed,            \* the source paths the last batch left empty
    mvfail,             \* the item of the last batch whose move raised
    undo_ret,           \* what the last undo_last_operation returned
    undo_sel,           \* the index of the record it selected, or 0
    undo_changed,       \* whether it changed the filesystem
    undo_fault,         \* whether a call of it raised for an outside reason
    result,             \* what the last driver call gave its caller
    unreadable,         \* the journal file is there and cannot be parsed
    savers,             \* the calls of save_operation_history under way, one per process
    csv_file,           \* the rows of a manifest file, each a sequence of fields
    csv_result          \* what read_csv_with_encoding_detection last returned

vars == <<fs, journal, pc, args, todo, cur, copied, source_paths, backup_paths,
          error_message, nbatch, nrows, nfaults, trail, fs0, raised, removed,
          mvfail, undo_ret, undo_sel, undo_changed, undo_fault, result,
          unreadable, savers, csv_file, csv_result>>

locals == <<args, todo, cur, copied, source_paths, backup_paths, error_message>>
budget == <<nbatch, nrows, nfaults>>
undo_ghosts == <<undo_ret, undo_sel, undo_changed, undo_fault>>
batch_ghosts == <<raised, removed, mvfail>>
ghosts == <<trail, fs0, raised, removed, mvfail, undo_ret, undo_sel, undo_changed,
            undo_fault>>
NoFail == [source |-> None]
NoResult == [raised |-> FALSE, value |-> <<>>]

\* the processes that share one journal file, and the calls each may make
Procs == {1, 2}
MaxSaves == 2
NoSavers == [p \in Procs |-> [pc |-> "idle", history |-> <<>>, done |-> 0]]

\* no manifest read yet
NotRead == [success |-> FALSE, data |-> <<>>, total_rows |-> 0]

NoError == "none"
NoArgs == [driver |-> "none"]
NoCur == [source |-> None]
EmptyFs == [q \in {} |-> DIR]

\* The tree the run starts from: two files named a in the source tree, one
\* of them inside the folder d, which also holds an empty folder d; a file a
\* and a folder d (holding a file a) already in the destination.
InitFs ==
    [q \in {SRC, join(SRC, Nm("a")), join(SRC, Nm("d")),
            join(join(SRC, Nm("d")), Nm("a")),
            join(join(SRC, Nm("d")), Nm("d")),
            DST, join(DST, Nm("a")), join(DST, Nm("d")),
            join(join(DST, Nm("d")), Nm("a"))} |->
        IF q = join(SRC, Nm("a")) THEN "x"
        ELSE IF q = join(join(SRC, Nm("d")), Nm("a")) THEN "z"
        ELSE IF q = join(DST, Nm("a")) THEN "y"
        ELSE IF q = join(join(DST, Nm("d")), Nm("a")) THEN "w"
        ELSE DIR]

Init ==
    /\ fs = InitFs
    /\ journal = <<>>
    /\ pc = "idle"
    /\ args = NoArgs
    /\ todo = <<>>
    /\ cur = NoCur
    /\ copied = <<>>
    /\ source_paths = <<>>
    /\ backup_paths = <<>>
    /\ error_message = NoError
    /\ nbatch = 0
    /\ nrows = 0
    /\ nfaults = 0
    /\ trail = "none"
    /\ fs0 = EmptyFs
    /\ raised = FALSE
    /\ removed = {}
    /\ mvfail = NoFail
    /\ undo_ret = FALSE
    /\ undo_sel = 0
    /\ undo_changed = FALSE
    /\ undo_fault = FALSE
    /\ result = NoResult
    /\ unreadable = FALSE
    /\ savers = NoSavers
    /\ csv_file = <<>>
    /\ csv_result = NotRead

\* sequences over S of length at most n
SeqsUpTo(S, n) == UNION {[1..k -> S] : k \in 0..n}

Row(s, t) == [source_name |-> s, target_name |-> t]

\* ------------------------------------------------------ staging a backup
\* f"backup_{basename}_{os.urandom(4).hex()}" in the staging area; the random
\* part is the tally n
BackupName(source, n) ==
    join(TEMP_BACKUP_DIR, <<"backup">> \o basename(source) \o [i \in 1..n |-> "h"])

SeqRange(sq) == {sq[i] : i \in DOMAIN sq}

\* the staging paths that exist or that a record or the running batch lists
KnownBackups ==
    {q \in DOMAIN fs : Len(q) = 2 /\ IsPrefix(TEMP_BACKUP_DIR, q)}
    \cup SeqRange(backup_paths)
    \cup UNION {SeqRange(journal[i].backup_paths) : i \in DOMAIN journal}

\* os.urandom(4): any value.  All values that give a path met nowhere are
\* alike, so one of them stands for them all, beside each value that gives
\* a path already known.
RandomTallies(source) ==
    LET top == Cardinality(KnownBackups) + 1
        fresh == CHOOSE n \in 1..top : BackupName(source, n) \notin KnownBackups
    IN  {fresh} \cup {n \in 1..top : BackupName(source, n) \in KnownBackups}

\* what a copy2 or copytree into the staging area that raises for an outside
\* reason can leave there: nothing, or a backup written in part
PARTIAL == "partial"
StageFaults(f, temp_backup, is_folder) ==
    {f, [q \in DOMAIN f \cup {temp_backup} |->
            IF q = temp_backup THEN (IF is_folder THEN DIR ELSE PARTIAL)
            ELSE f[q]]}

\* the except branch of a cut item: the backup, when it exists, is moved to
\* the source path; a move that raises leaves it where it is
RestoreBackup(f, temp_backup, source, restore_raises) ==
    IF exists(f, temp_backup) /\ ~restore_raises
    THEN shutil_move(f, temp_backup, source).fs
    ELSE f

\* ----------------------------------------------------------- the journal
\* the record is written as completed whatever success says
save_as_completed(history, operation_type, srcs, tgts, baks, operation_id, success, message) ==
    Append(history,
           [id |-> operation_id,
            type |-> operation_type,
            source_paths |-> srcs,
            target_paths |-> tgts,
            backup_paths |-> baks,
            status |-> "completed",
            success |-> success,
            error_message |-> message,
            undo_timestamp |-> FALSE])

\* a batch that transferred nothing leaves no record
save_unless_empty(history, operation_type, srcs, tgts, baks, operation_id, success, message) ==
    IF tgts = <<>> THEN history
    ELSE Append(history,
                [id |-> operation_id, type |-> operation_type,
                 source_paths |-> srcs, target_paths |-> tgts,
                 backup_paths |-> baks,
                 status |-> IF success THEN "completed" ELSE "failed",
                 success |-> success, error_message |-> message,
                 undo_timestamp |-> FALSE])

\* save_operation_history: the record appended to the history read
save_operation_history(history, operation_type, srcs, tgts, baks, operation_id, success, message) ==
    Append(history,
           [id |-> operation_id,
            type |-> operation_type,
            source_paths |-> srcs,
            target_paths |-> tgts,
            backup_paths |-> baks,
            status |-> IF success THEN "completed" ELSE "failed",
            success |-> success,
            error_message |-> message,
            undo_timestamp |-> FALSE])

\* ------------------------------------------- steps shared by the drivers
\* A driver call begins: the locals are initialised. charged is what the
\* manifest takes of the rows the run may hand to the drivers.
BeginCharged(driver, source, target, rows, cut_mode, conflict_mode, charged) ==
    /\ pc = "idle"
    /\ nbatch < MaxBatches
    /\ charged <= MaxRows - nrows
    /\ args' = [driver |-> driver, source |-> source, target |-> target,
                rows |-> rows, cut_mode |-> cut_mode,
                conflict_mode |-> conflict_mode, processed_files |-> {}]
    /\ nbatch' = nbatch + 1
    /\ nrows' = nrows + charged
    /\ copied' = <<>>
    /\ source_paths' = <<>>
    /\ backup_paths' = <<>>
    /\ cur' = NoCur
    /\ trail' = "batch"
    /\ fs0' = fs
    /\ raised' = FALSE
    /\ removed' = {}
    /\ mvfail' = NoFail
    /\ undo_ret' = FALSE
    /\ undo_sel' = 0
    /\ undo_changed' = FALSE
    /\ undo_fault' = FALSE
    /\ result' = NoResult
    /\ UNCHANGED <<journal, nfaults, unreadable, savers, csv_file, csv_result>>

Begin(driver, source, target, rows, cut_mode, conflict_mode) == BeginCharged(driver, source, target, rows, cut_mode, conflict_mode, Len(rows))

\* an exception that is logged for the item in hand, the loop going on
CaughtForItem(f, message) == fs' = f /\ error_message' = message /\ pc' = "loop"

\* An exception reaches the except branch of the driver.
Caught(f, message) ==
    /\ fs' = f
    /\ error_message' = message
    /\ pc' = "finally"

\* a row that cannot be transferred ends the batch
FailOnRow(f) == fs' = f /\ pc' = "finally" /\ error_message' = "row raised" /\ UNCHANGED <<todo, cur, copied, source_paths, backup_paths>>

\* The row (found folder) in hand is done with, nothing transferred.
NextRow(f) ==
    /\ fs' = f
    /\ todo' = Tail(todo)
    /\ UNCHANGED <<pc, cur, copied, source_paths, backup_paths, error_message>>

\* the backup is listed without being written
WriteNoBackup(f, source_item, temp_backup, is_folder) == Ok(f)

\* 1. the copy of the source item to the staging area
WriteBackup(f, source_item, temp_backup, is_folder) ==
    IF is_folder
    THEN shutil_copytree(f, source_item, temp_backup)
    ELSE shutil_copy2(f, source_item, temp_backup)

\* The try block of a cut (rename) item as far as the backup: the backup is
\* written and listed, or the copy raises and the except branch of the item
\* runs and raises again.
StageBackup(f, source_item, resolved_path, is_folder) ==
    \E n \in RandomTallies(source_item), fault \in BOOLEAN, restore_raises \in BOOLEAN :
        LET temp_backup == BackupName(source_item, n)
            cp == WriteBackup(f, source_item, temp_backup, is_folder)
        IN  /\ fault => nfaults < MaxFaults
            /\ restore_raises => fault
            /\ nfaults' = nfaults + (IF fault THEN 1 ELSE 0)
            /\ IF cp.ok /\ ~fault
               THEN /\ fs' = cp.fs
                    /\ backup_paths' = Append(backup_paths, temp_backup)
                    /\ source_paths' = Append(source_paths, source_item)
                    /\ cur' = [source |-> source_item, resolved |-> resolved_path,
                               backup |-> temp_backup]
                    /\ pc' = "move"
                    /\ UNCHANGED <<todo, copied, error_message>>
               ELSE /\ \E f1 \in (IF fault THEN StageFaults(f, temp_backup, is_folder)
                                           ELSE {cp.fs}) :
                          Caught(RestoreBackup(f1, temp_backup, source_item, restore_raises),
                                 "backup raised")
                    /\ UNCHANGED <<todo, cur, copied, source_paths, backup_paths>>

\* the check that follows the move: the destination is there and the source
\* is not
MoveVerified(f, source_file, resolved_path) ==
    exists(f, resolved_path) /\ ~exists(f, source_file)

\* a driver that takes a move it cannot verify for a move that raised
MoveOutcomeChecked(moved, verified) == moved /\ verified

\* whether the item goes on as moved: when the check fails the driver prints
\* a warning and goes on all the same
MoveOutcome(moved, verified) == moved

\* The rest of the try block of a cut (rename) item: the move, after which
\* the target is listed; a move that raises runs the except branch of the
\* item, which restores the backup and raises again.
MoveStaged ==
    /\ pc = "move"
    /\ \E fault \in BOOLEAN, restore_raises \in BOOLEAN :
        LET mv == shutil_move(fs, cur.source, cur.resolved)
        IN  /\ fault => nfaults < MaxFaults
            /\ restore_raises => fault
            /\ nfaults' = nfaults + (IF fault THEN 1 ELSE 0)
            /\ IF MoveOutcome(mv.ok, MoveVerified(mv.fs, cur.source, cur.resolved)) /\ ~fault
               THEN /\ fs' = mv.fs
                    /\ copied' = Append(copied, cur.resolved)
                    /\ todo' = Tail(todo)
                    /\ pc' = "loop"
                    /\ UNCHANGED <<error_message, mvfail>>
               ELSE /\ \E f1 \in (IF fault THEN MoveFaults(fs, cur.source, cur.resolved)
                                           ELSE {mv.fs}) :
                          /\ Caught(RestoreBackup(f1, cur.backup, cur.source, restore_raises),
                                    "move raised")
                          /\ mvfail' = [source |-> cur.source, backup |-> cur.backup,
                                        content |-> Tree(fs, cur.source),
                                        restore_raised |->
                                            \/ restore_raises
                                            \/ ~shutil_move(f1, cur.backup, cur.source).ok]
                    /\ UNCHANGED <<todo, copied>>
    /\ cur' = NoCur
    /\ UNCHANGED <<journal, source_paths, backup_paths, nbatch, nrows>>
    /\ UNCHANGED <<trail, fs0, raised, removed, result, unreadable, savers, csv_file, csv_result>>
    /\ UNCHANGED undo_ghosts

\* what a copy2 or copytree to the destination that raises for an outside
\* reason can leave: nothing, or the destination written in part
CopyFaults(f, resolved_path, is_folder) ==
    {f} \cup (IF isdir(f, dirname(resolved_path)) /\ ~isdir(f, resolved_path)
                 /\ (is_folder => ~exists(f, resolved_path))
              THEN {[q \in DOMAIN f \cup {resolved_path} |->
                        IF q = resolved_path
                        THEN (IF is_folder THEN DIR ELSE PARTIAL)
                        ELSE f[q]]}
              ELSE {})

\* an item treated as cut whatever the mode of the batch
CutFile(f, source_file, dest_file, resolved_path) == StageBackup(f, source_file, resolved_path, FALSE)

\* The copy branch of a file item (search and path-list drivers).
CopyFile(f, source_file, dest_file, resolved_path) ==
    \E fault \in BOOLEAN :
        LET md == IF resolved_path # dest_file
                  THEN os_makedirs(f, dirname(resolved_path))
                  ELSE Ok(f)
            cp == IF md.ok THEN shutil_copy2(md.fs, source_file, resolved_path) ELSE md
        IN  /\ fault => nfaults < MaxFaults
            /\ nfaults' = nfaults + (IF fault THEN 1 ELSE 0)
            /\ IF cp.ok /\ ~fault
               THEN /\ fs' = cp.fs
                    /\ copied' = Append(copied, resolved_path)
                    /\ source_paths' = Append(source_paths, source_file)
                    /\ todo' = Tail(todo)
                    /\ UNCHANGED <<pc, cur, backup_paths, error_message>>
               ELSE /\ \E f1 \in (IF fault THEN CopyFaults(md.fs, resolved_path, FALSE)
                                           ELSE {cp.fs}) :
                          Caught(f1, "copy raised")
                    /\ UNCHANGED <<todo, cur, copied, source_paths, backup_paths>>

\* a reader that takes the records of a damaged file as they were
ReadHistoryKept == journal

\* the history save_operation_history reads: json.load, and [] when it raises
ReadHistory == IF unreadable THEN <<>> ELSE journal

\* a driver that hands the exception it caught on to its caller
ReturnRaising(value, operation_success, unbound) == [raised |-> ~operation_success \/ unbound, value |-> IF operation_success /\ ~unbound THEN value ELSE <<>>]

\* The statements after the finally block: the except branch has swallowed
\* the exception, so the driver prints its summary and returns the list it
\* built, completed or not; a summary that reads a name the try block never
\* bound raises UnboundLocalError instead.
ReturnOf(value, operation_success, unbound) == IF unbound THEN [raised |-> TRUE, value |-> <<>>] ELSE [raised |-> FALSE, value |-> value]

\* The finally branch of a driver, reached from the except branch or from the
\* end of the try block (operation_success = True), and the return.
Finally(operation_type, baks) ==
    /\ \/ pc = "finally"
       \/ pc = "loop" /\ todo = <<>>
    /\ journal' = save_operation_history(ReadHistory, operation_type, source_paths,
                                         copied, baks, nbatch, pc = "loop",
                                         IF pc = "loop" THEN NoError ELSE error_message)
    /\ unreadable' = FALSE
    /\ UNCHANGED <<savers, csv_file, csv_result>>
    /\ pc' = "idle"
    /\ args' = NoArgs
    /\ todo' = <<>>
    /\ cur' = NoCur
    /\ copied' = <<>>
    /\ source_paths' = <<>>
    /\ backup_paths' = <<>>
    /\ error_message' = NoError
    /\ raised' = (pc = "finally")
    /\ removed' = {q \in SeqRange(source_paths) : ~exists(fs, q)}
    /\ UNCHANGED <<fs, nbatch, nrows, nfaults>>
    /\ UNCHANGED <<trail, fs0, mvfail>>
    /\ UNCHANGED undo_ghosts

OperationType(cut_mode) == IF cut_mode THEN "cut" ELSE "copy"

\* ------------------------------------------------- search_and_copy_files
a == Nm("a")
SearchRows == {Row(a, a), Row(Nm("A"), Nm("b")), Row(Nm("q"), Nm("q"))}

\* the files under source whose name is file_name, ignoring case
MatchingFiles(f, source, file_name) ==
    {q \in DOMAIN f : /\ isfile(f, q)
                      /\ IsPrefix(source, q) /\ Len(q) > Len(source)
                      /\ lower(basename(q)) = lower(file_name)}

\* a walk that may stop at any match
AnyInWalk(M) == M

\* os.walk is top-down and lists a directory in any order: the first match
\* is any match with no match in a directory above its own
FirstInWalk(M) ==
    {q \in M : \A g \in M : ~(/\ Len(dirname(g)) < Len(dirname(q))
                              /\ IsPrefix(dirname(g), dirname(q)))}

\* the checks before the loop: source, target, manifest, staging area
search_start(source, target, csv_ok, rows, cut_mode, conflict_mode) ==
    /\ Begin("search", source, target, rows, cut_mode, conflict_mode)
    /\ IF ~exists(fs, source)
       THEN Caught(fs, "source missing") /\ todo' = <<>>
       ELSE LET mk == IF exists(fs, target) THEN Ok(fs) ELSE os_makedirs(fs, target)
            IN  IF ~csv_ok
                THEN Caught(mk.fs, "manifest missing") /\ todo' = <<>>
                ELSE /\ fs' = os_makedirs(mk.fs, TEMP_BACKUP_DIR).fs
                     /\ todo' = rows
                     /\ pc' = "loop"
                     /\ error_message' = NoError

\* one manifest row: the walk, the conflict, and the copy or the backup
search_item ==
    /\ pc = "loop" /\ args.driver = "search" /\ todo # <<>>
    /\ LET file_name == Head(todo).source_name
           target_name == Head(todo).target_name
           dest_file == join(args.target, target_name)
           found == MatchingFiles(fs, args.source, file_name)
           md == os_makedirs(fs, dirname(dest_file))
           resolved_path == resolve_conflict(md.fs, None, dest_file,
                                             args.conflict_mode, FALSE)
       IN  IF found = {} THEN NextRow(fs) /\ UNCHANGED nfaults
           ELSE IF ~md.ok
           THEN /\ Caught(fs, "makedirs raised")
                /\ UNCHANGED <<todo, cur, copied, source_paths, backup_paths, nfaults>>
           ELSE IF resolved_path = None THEN NextRow(md.fs) /\ UNCHANGED nfaults
           ELSE \E source_file \in FirstInWalk(found) :
                    IF args.cut_mode
                    THEN StageBackup(md.fs, source_file, resolved_path, FALSE)
                    ELSE CopyFile(md.fs, source_file, dest_file, resolved_path)
    /\ UNCHANGED <<journal, args, nbatch, nrows>>
    /\ UNCHANGED <<ghosts, result, unreadable, savers, csv_file, csv_result>>

search_move == args.driver = "search" /\ MoveStaged /\ UNCHANGED args

search_finally ==
    /\ args.driver = "search"
    /\ result' = ReturnOf(copied, pc = "loop", FALSE)
    /\ Finally(OperationType(args.cut_mode),
               IF args.cut_mode THEN backup_paths ELSE <<>>)

\* ------------------------------------------------- extract_entire_folder
d == Nm("d")
ExtractRows == {Row(d, d), Row(d, Nm("e"))}

\* the row a directory name is matched to: the first row of the manifest
\* with that name, ignoring case (0 when there is none)
RECURSIVE FirstRowFor(_, _, _)
FirstRowFor(rows, dir_name, i) ==
    IF i > Len(rows) THEN 0
    ELSE IF lower(dir_name) = lower(rows[i].source_name) THEN i
    ELSE FirstRowFor(rows, dir_name, i + 1)

\* the keys of found_folders: the directories below source with a row
FoundFolders(f, source, rows) ==
    {q \in DOMAIN f : /\ isdir(f, q)
                      /\ IsPrefix(source, q) /\ Len(q) > Len(source)
                      /\ FirstRowFor(rows, basename(q), 1) > 0}

\* found_folders keeps the order of the walk, which is top-down: a directory
\* comes before the directories inside it
WalkOrders(S) ==
    {sq \in [1..Cardinality(S) -> S] :
        /\ \A i, j \in DOMAIN sq : i # j => sq[i] # sq[j]
        /\ \A i, j \in DOMAIN sq : i < j => ~IsPrefix(sq[j], sq[i])}

extract_start(source, target, csv_ok, rows, cut_mode, conflict_mode) ==
    /\ Begin("extract", source, target, rows, cut_mode, conflict_mode)
    /\ IF ~exists(fs, source)
       THEN Caught(fs, "source missing") /\ todo' = <<>>
       ELSE LET mk == IF exists(fs, target) THEN Ok(fs) ELSE os_makedirs(fs, target)
            IN  IF ~csv_ok
                THEN Caught(mk.fs, "manifest missing") /\ todo' = <<>>
                ELSE LET f1 == os_makedirs(mk.fs, TEMP_BACKUP_DIR).fs
                     IN  /\ fs' = f1
                         /\ \E sq \in WalkOrders(FoundFolders(f1, source, rows)) :
                              todo' = [i \in DOMAIN sq |->
                                  LET row == rows[FirstRowFor(rows, basename(sq[i]), 1)]
                                  IN  [source_folder |-> sq[i],
                                       folder_name |-> row.source_name,
                                       target_name |-> row.target_name,
                                       dest_path |-> join(target, row.target_name)]]
                         /\ pc' = "loop"
                         /\ error_message' = NoError

\* The copy branch of a found folder: the merge, or the copytree (after the
\* rmtree of an existing destination under overwrite).
CopyFolder(f, source_folder, resolved_path, conflict_mode) ==
    \E fault \in BOOLEAN :
        LET rm == IF exists(f, resolved_path) /\ conflict_mode = "overwrite"
                  THEN shutil_rmtree(f, resolved_path)
                  ELSE Ok(f)
            r == IF conflict_mode = "merge" /\ exists(f, resolved_path)
                 THEN merge_folders(f, source_folder, resolved_path)
                 ELSE IF rm.ok THEN shutil_copytree(rm.fs, source_folder, resolved_path)
                 ELSE rm
        IN  /\ fault => nfaults < MaxFaults
            /\ nfaults' = nfaults + (IF fault THEN 1 ELSE 0)
            /\ IF r.ok /\ ~fault
               THEN /\ fs' = r.fs
                    /\ copied' = Append(copied, resolved_path)
                    /\ source_paths' = Append(source_paths, source_folder)
                    /\ todo' = Tail(todo)
                    /\ UNCHANGED <<pc, cur, backup_paths, error_message>>
               ELSE /\ \E f1 \in (IF fault THEN CopyFaults(f, resolved_path, TRUE)
                                           ELSE {r.fs}) :
                          Caught(f1, "copy raised")
                    /\ UNCHANGED <<todo, cur, copied, source_paths, backup_paths>>

extract_item ==
    /\ pc = "loop" /\ args.driver = "extract" /\ todo # <<>>
    /\ LET source_folder == Head(todo).source_folder
           dest_path == Head(todo).dest_path
           md == os_makedirs(fs, dirname(dest_path))
           resolved_path == resolve_conflict(md.fs, source_folder, dest_path,
                                             args.conflict_mode, TRUE)
       IN  IF ~md.ok
           THEN /\ Caught(fs, "makedirs raised")
                /\ UNCHANGED <<todo, cur, copied, source_paths, backup_paths, nfaults>>
           ELSE IF resolved_path = None THEN NextRow(md.fs) /\ UNCHANGED nfaults
           ELSE IF args.cut_mode
           THEN StageBackup(md.fs, source_folder, resolved_path, TRUE)
           ELSE CopyFolder(md.fs, source_folder, resolved_path, args.conflict_mode)
    /\ UNCHANGED <<journal, args, nbatch, nrows>>
    /\ UNCHANGED <<ghosts, result, unreadable, savers, csv_file, csv_result>>

extract_move == args.driver = "extract" /\ MoveStaged /\ UNCHANGED args

\* found_folders and folder_targets are bound in the try block after the
\* manifest was read; the summary after the finally block reads both
FoundFoldersUnbound ==
    pc = "finally" /\ error_message \in {"source missing", "manifest missing"}

extract_finally ==
    /\ args.driver = "extract"
    /\ result' = ReturnOf(copied, pc = "loop", FoundFoldersUnbound)
    /\ Finally(OperationType(args.cut_mode),
               IF args.cut_mode THEN backup_paths ELSE <<>>)

\* ------------------------------------------------- rename_files_in_place
RenameRows ==
    {Row(join(SRC, a), join(SRC, Nm("b"))),
     Row(join(SRC, a), join(join(SRC, d), a)),
     Row(join(join(SRC, d), a), join(SRC, a))}

\* source_path_counts[source_path]: the targets the manifest gives it
TargetsOf(rows, source_path) ==
    {rows[i].target_name : i \in {j \in DOMAIN rows : rows[j].source_name = source_path}}
TimesListed(rows, source_path) ==
    Cardinality({j \in DOMAIN rows : rows[j].source_name = source_path})

rename_begin(csv_ok, rows, conflict_mode, charged) ==
    /\ BeginCharged("rename", None, None, rows, TRUE, conflict_mode, charged)
    /\ IF ~csv_ok
       THEN Caught(fs, "manifest missing") /\ todo' = <<>>
       ELSE /\ fs' = os_makedirs(fs, TEMP_BACKUP_DIR).fs
            /\ todo' = rows
            /\ pc' = "loop"
            /\ error_message' = NoError

rename_start(csv_ok, rows, conflict_mode) == rename_begin(csv_ok, rows, conflict_mode, Len(rows))

\* a loop that keeps no set of the source paths it has dealt with
Unprocessed(source_path) == args

Processed(source_path) == [args EXCEPT !.processed_files = @ \cup {source_path}]

rename_item ==
    /\ pc = "loop" /\ args.driver = "rename" /\ todo # <<>>
    /\ LET source_path == Head(todo).source_name
           target_path == Head(todo).target_name
           md == os_makedirs(fs, dirname(target_path))
           resolved_path == resolve_conflict(md.fs, source_path, target_path,
                                             args.conflict_mode, FALSE)
       IN  IF source_path \in args.processed_files
           THEN NextRow(fs) /\ UNCHANGED <<args, nfaults>>
           ELSE IF /\ TimesListed(args.rows, source_path) > 1
                   /\ Cardinality(TargetsOf(args.rows, source_path)) > 1
           THEN NextRow(fs) /\ args' = Processed(source_path) /\ UNCHANGED nfaults
           ELSE IF ~isfile(fs, source_path)
           THEN NextRow(fs) /\ UNCHANGED <<args, nfaults>>
           ELSE IF ~md.ok
           THEN /\ Caught(fs, "makedirs raised")
                /\ UNCHANGED <<todo, cur, copied, source_paths, backup_paths,
                               args, nfaults>>
           ELSE IF resolved_path = None
           THEN NextRow(md.fs) /\ args' = Processed(source_path) /\ UNCHANGED nfaults
           ELSE StageBackup(md.fs, source_path, resolved_path, FALSE) /\ UNCHANGED args
    /\ UNCHANGED <<journal, nbatch, nrows>>
    /\ UNCHANGED <<ghosts, result, unreadable, savers, csv_file, csv_result>>

rename_move ==
    /\ args.driver = "rename"
    /\ MoveStaged
    /\ args' = IF pc' = "loop" THEN Processed(cur.source) ELSE args

rename_finally ==
    /\ args.driver = "rename"
    /\ result' = ReturnOf(copied, pc = "loop", FALSE)
    /\ Finally("rename", backup_paths)

\* --------------------------------------------- copy_files_from_csv_paths
CsvRows ==
    {Row(join(SRC, a), DST),
     Row(join(join(SRC, d), a), join(DST, Nm("n")))}

csv_start(csv_ok, rows, cut_mode, conflict_mode) ==
    /\ Begin("csv", None, None, rows, cut_mode, conflict_mode)
    /\ IF ~csv_ok
       THEN Caught(fs, "manifest missing") /\ todo' = <<>>
       ELSE /\ fs' = os_makedirs(fs, TEMP_BACKUP_DIR).fs
            /\ todo' = rows
            /\ pc' = "loop"
            /\ error_message' = NoError

csv_item ==
    /\ pc = "loop" /\ args.driver = "csv" /\ todo # <<>>
    /\ LET source_path == Head(todo).source_name
           target_folder == Head(todo).target_name
           dest_path == join(target_folder, basename(source_path))
           md == os_makedirs(fs, target_folder)
           resolved_path == resolve_conflict(md.fs, source_path, dest_path,
                                             args.conflict_mode, FALSE)
       IN  IF ~isfile(fs, source_path) THEN NextRow(fs) /\ UNCHANGED nfaults
           ELSE IF ~md.ok
           THEN /\ Caught(fs, "makedirs raised")
                /\ UNCHANGED <<todo, cur, copied, source_paths, backup_paths, nfaults>>
           ELSE IF resolved_path = None THEN NextRow(md.fs) /\ UNCHANGED nfaults
           ELSE IF args.cut_mode
           THEN StageBackup(md.fs, source_path, resolved_path, FALSE)
           ELSE CopyFile(md.fs, source_path, dest_path, resolved_path)
    /\ UNCHANGED <<journal, args, nbatch, nrows>>
    /\ UNCHANGED <<ghosts, result, unreadable, savers, csv_file, csv_result>>

csv_move == args.driver = "csv" /\ MoveStaged /\ UNCHANGED args

csv_finally ==
    /\ args.driver = "csv"
    /\ result' = ReturnOf(copied, pc = "loop", FALSE)
    /\ Finally(OperationType(args.cut_mode),
               IF args.cut_mode THEN backup_paths ELSE <<>>)

\* ---------------------------------------------------- undo_last_operation
\* for op in reversed(history): the index of the newest record whose status
\* is completed, 0 when there is none
RECURSIVE LastCompletedFrom(_, _)
\* the scan stops at the newest record that is not undone
LastNotUndoneFrom(history, i) ==
    IF \E j \in 1..i : history[j].status # "undone"
    THEN CHOOSE j \in 1..i : /\ history[j].status # "undone"
                            /\ \A h \in (j + 1)..i : history[h].status = "undone"
    ELSE 0

\* the scan stops at the oldest completed record
OldestCompletedFrom(history, i) ==
    IF \E j \in 1..i : history[j].status = "completed"
    THEN CHOOSE j \in 1..i : /\ history[j].status = "completed"
                            /\ \A h \in 1..(j - 1) : history[h].status # "completed"
    ELSE 0

\* a scan that passes over the completed records of which nothing is left to
\* reverse: no target of a copy record, no backup of a cut or rename record
RECURSIVE NewestReversibleFrom(_, _)
NewestReversibleFrom(history, i) ==
    IF i = 0 THEN 0
    ELSE IF /\ history[i].status = "completed"
            /\ \E q \in SeqRange(IF history[i].type = "copy" THEN history[i].target_paths
                                 ELSE history[i].backup_paths) : q \in DOMAIN fs
         THEN i
         ELSE NewestReversibleFrom(history, i - 1)

LastCompletedFrom(history, i) ==
    IF i = 0 THEN 0
    ELSE IF history[i].status = "completed" THEN i
    ELSE LastCompletedFrom(history, i - 1)

LastCompleted(history) == LastCompletedFrom(history, Len(history))

Min(x, y) == IF x < y THEN x ELSE y

\* the removal of a target path: os.remove or shutil.rmtree
RemoveTarget(f, target_path) ==
    IF isfile(f, target_path) THEN os_remove(f, target_path)
    ELSE shutil_rmtree(f, target_path)

\* One index of a cut or rename record: [ok, fs], ok when success_count is
\* incremented.  raises names the call that raises for an outside reason.
UndoMoved(f, op, i, raises) ==
    LET backup_path == op.backup_paths[i]
        target_path == op.target_paths[i]
    IN  IF ~exists(f, backup_path) \/ i > Len(op.source_paths) THEN Raise(f)
        ELSE LET source_path == op.source_paths[i]
                 md == os_makedirs(f, dirname(source_path))
                 mv == IF md.ok /\ raises # "move"
                       THEN shutil_move(md.fs, backup_path, source_path)
                       ELSE Raise(md.fs)
             IN  IF ~mv.ok THEN mv
                 ELSE IF exists(mv.fs, target_path) /\ target_path # source_path
                 THEN (IF raises = "remove" THEN Raise(mv.fs)
                       ELSE RemoveTarget(mv.fs, target_path))
                 ELSE mv

\* One target of a copy record.
UndoCopied(f, op, i, raises) ==
    LET target_path == op.target_paths[i]
    IN  IF ~exists(f, target_path) \/ raises # "none" THEN Raise(f)
        ELSE RemoveTarget(f, target_path)

\* the loop over the indices i..n of the record: [fs, success_count]
RECURSIVE UndoLoop(_, _, _, _, _, _, _)
UndoLoop(f, op, i, n, success_count, fault_at, raises) ==
    IF i > n THEN [fs |-> f, success_count |-> success_count]
    ELSE LET why == IF i = fault_at THEN raises ELSE "none"
             r == IF op.type = "copy" THEN UndoCopied(f, op, i, why)
                  ELSE UndoMoved(f, op, i, why)
         IN  UndoLoop(r.fs, op, i + 1, n,
                      success_count + (IF r.ok THEN 1 ELSE 0), fault_at, raises)

\* zip(backup_paths, target_paths) stops at the shorter list
UndoCount(op) ==
    IF op.type = "copy" THEN Len(op.target_paths)
    ELSE Min(Len(op.backup_paths), Len(op.target_paths))

\* the selected record is marked only when every index was reversed
MarkUndoneWhenAll(history, k, success_count) ==
    IF success_count > 0 /\ success_count = UndoCount(history[k])
    THEN [history EXCEPT ![k].status = "undone", ![k].undo_timestamp = TRUE]
    ELSE history

\* every completed record is marked, not the selected one alone
MarkAllUndone(history, k, success_count) ==
    IF success_count > 0
    THEN [i \in DOMAIN history |->
            IF history[i].status = "completed"
            THEN [history[i] EXCEPT !.status = "undone", !.undo_timestamp = TRUE]
            ELSE history[i]]
    ELSE history

\* if success_count > 0: the record is marked and the journal rewritten
MarkUndone(history, k, success_count) ==
    IF success_count > 0
    THEN [history EXCEPT ![k].status = "undone", ![k].undo_timestamp = TRUE]
    ELSE history

\* the operations seen last: a batch, an undo right after it, two undo calls
\* with no batch between them
AfterUndo(t) ==
    IF t = "batch" THEN "batch,undo"
    ELSE IF t = "none" THEN "undo"
    ELSE "undo,undo"

undo_last_operation ==
    /\ pc = "idle"
    /\ LET k == IF unreadable THEN 0 ELSE LastCompleted(journal)
       IN  IF k = 0
           THEN /\ undo_ret' = FALSE
                /\ undo_sel' = 0
                /\ undo_changed' = FALSE
                /\ undo_fault' = FALSE
                /\ UNCHANGED <<fs, journal, nfaults>>
           ELSE \E fault_at \in 0..UndoCount(journal[k]), raises \in {"move", "remove"} :
                  LET r == UndoLoop(fs, journal[k], 1, UndoCount(journal[k]), 0,
                                    fault_at, raises)
                  IN  /\ fault_at > 0 => nfaults < MaxFaults
                      /\ fault_at = 0 => raises = "move"
                      /\ nfaults' = nfaults + (IF fault_at > 0 THEN 1 ELSE 0)
                      /\ fs' = r.fs
                      /\ undo_ret' = (r.success_count > 0)
                      /\ undo_sel' = k
                      /\ undo_changed' = (r.fs # fs)
                      /\ undo_fault' = (fault_at > 0)
                      /\ journal' = MarkUndone(journal, k, r.success_count)
    /\ trail' = AfterUndo(trail)
    /\ fs0' = IF trail = "batch" THEN fs0 ELSE EmptyFs
    /\ UNCHANGED batch_ghosts
    /\ UNCHANGED locals
    /\ UNCHANGED <<pc, nbatch, nrows, result, unreadable, savers, csv_file, csv_result>>

\* ------------------------------------------------------------ the program
Next ==
    \/ \E csv_ok \in BOOLEAN, rows \in SeqsUpTo(SearchRows, MaxRows),
          cut_mode \in BOOLEAN, conflict_mode \in CONFLICT_MODES, source \in {SRC, NOSRC} :
            /\ (source = NOSRC \/ ~csv_ok) => rows = <<>> /\ conflict_mode = "copy"
            /\ source = NOSRC => csv_ok
            /\ search_start(source, DST, csv_ok, rows, cut_mode, conflict_mode)
    \/ search_item
    \/ search_move
    \/ search_finally
    \/ \E csv_ok \in BOOLEAN, rows \in SeqsUpTo(ExtractRows, MaxRows),
          cut_mode \in BOOLEAN, conflict_mode \in CONFLICT_MODES, source \in {SRC, NOSRC} :
            /\ (source = NOSRC \/ ~csv_ok) => rows = <<>> /\ conflict_mode = "copy"
            /\ source = NOSRC => csv_ok
            /\ extract_start(source, DST, csv_ok, rows, cut_mode, conflict_mode)
    \/ extract_item
    \/ extract_move
    \/ extract_finally
    \/ \E csv_ok \in BOOLEAN, rows \in SeqsUpTo(RenameRows, MaxRows),
          conflict_mode \in CONFLICT_MODES :
            /\ ~csv_ok => rows = <<>> /\ conflict_mode = "copy"
            /\ rename_start(csv_ok, rows, conflict_mode)
    \/ rename_item
    \/ rename_move
    \/ rename_finally
    \/ \E csv_ok \in BOOLEAN, rows \in SeqsUpTo(CsvRows, MaxRows),
          cut_mode \in BOOLEAN, conflict_mode \in CONFLICT_MODES :
            /\ ~csv_ok => rows = <<>> /\ conflict_mode = "copy"
            /\ csv_start(csv_ok, rows, cut_mode, conflict_mode)
    \/ csv_item
    \/ csv_move
    \/ csv_finally
    \/ undo_last_operation

Spec == Init /\ [][Next]_vars

\* ------------------------------------------------- the loop of __main__
\* cleanup_old_history(max_entries=5000)
MAX_ENTRIES == 5000

\* history[-n:] for n >= 0: -0 is 0, so the slice from -0 is the whole list
SliceFromEnd(history, n) ==
    IF n = 0 \/ n >= Len(history) THEN history
    ELSE SubSeq(history, Len(history) - n + 1, Len(history))

\* cleanup_old_history(max_entries) on the history read
cleanup_old_history(history, max_entries) ==
    IF Len(history) > max_entries THEN SliceFromEnd(history, max_entries)
    ELSE history

\* the backup paths of every completed record
backups_of_all(history, readable) == IF readable THEN UNION {SeqRange(history[i].backup_paths) : i \in {j \in DOMAIN history : history[j].status = "completed"}} ELSE {}

\* recent_backups: the backup paths of the last completed record, none when
\* the journal cannot be read
recent_backups(history, readable) ==
    IF readable /\ LastCompleted(history) # 0
    THEN SeqRange(history[LastCompleted(history)].backup_paths)
    ELSE {}

\* cleanup_backup_files(keep_recent)
cleanup_backup_files(f, history, readable, keep_recent) ==
    IF ~exists(f, TEMP_BACKUP_DIR) THEN f
    ELSE IF keep_recent
    THEN Without(f, UNION {Under(f, item_path) :
                            item_path \in listdir(f, TEMP_BACKUP_DIR)
                                            \ recent_backups(history, readable)})
    ELSE shutil_rmtree(f, TEMP_BACKUP_DIR).fs

\* what the loop of __main__ leaves alone between two operations
main_frame ==
    /\ pc = "idle"
    /\ UNCHANGED <<pc, nbatch, nrows, result, savers, csv_file, csv_result>>
    /\ UNCHANGED locals
    /\ UNCHANGED ghosts

\* the finally block of the loop, run after every operation
main_finally ==
    /\ main_frame
    /\ fs' = cleanup_backup_files(fs, journal, ~unreadable, TRUE)
    /\ journal' = IF unreadable THEN journal
                  ELSE cleanup_old_history(journal, MAX_ENTRIES)
    /\ UNCHANGED <<unreadable, nfaults>>

\* the user ends the program at the prompt that follows
main_exit ==
    /\ main_frame
    /\ fs' = cleanup_backup_files(fs, journal, ~unreadable, FALSE)
    /\ UNCHANGED <<journal, unreadable, nfaults>>

\* between two operations the journal file is damaged from outside
journal_damaged ==
    /\ main_frame
    /\ ~unreadable
    /\ nfaults < MaxFaults
    /\ nfaults' = nfaults + 1
    /\ unreadable' = TRUE
    /\ UNCHANGED <<fs, journal>>

MainNext ==
    \/ Next
    \/ main_finally
    \/ main_exit
    \/ journal_damaged

MainSpec == Init /\ [][MainNext]_vars

\* ------------------------------------------- renaming a file to its own path
\* a manifest row whose target is the source path itself
RenameInPlaceRows == {Row(join(SRC, a), join(SRC, a))}

\* rename_files_in_place on a manifest that holds such a row
rename_in_place ==
    \E rows \in SeqsUpTo(RenameRows \cup RenameInPlaceRows, MaxRows), conflict_mode \in CONFLICT_MODES :
        /\ SeqRange(rows) \cap RenameInPlaceRows # {}
        /\ rename_start(TRUE, rows, conflict_mode)

InPlaceNext ==
    \/ Next
    \/ rename_in_place

InPlaceSpec == Init /\ [][InPlaceNext]_vars

\* --------------------------------- one directory as source and destination
\* search_and_copy_files with the source root given as the destination root
search_same_root ==
    \E rows \in SeqsUpTo(SearchRows, MaxRows), cut_mode \in BOOLEAN, conflict_mode \in CONFLICT_MODES :
        search_start(SRC, SRC, TRUE, rows, cut_mode, conflict_mode)

SameRootNext ==
    \/ Next
    \/ search_same_root

SameRootSpec == Init /\ [][SameRootNext]_vars

\* ------------------------------ a source path listed in several manifest rows
\* the longest manifest that lists a source path more than once
MaxListed == 3

\* the source paths a manifest lists
SourcesListed(rows) == {rows[i].source_name : i \in DOMAIN rows}

\* rename_files_in_place on a manifest that lists a source path in several
\* rows; the rows of one source path count once
rename_repeated ==
    \E rows \in SeqsUpTo(RenameRows, MaxListed), conflict_mode \in CONFLICT_MODES :
        /\ \E source_path \in SourcesListed(rows) : TimesListed(rows, source_path) > 1
        /\ rename_begin(TRUE, rows, conflict_mode, Cardinality(SourcesListed(rows)))

RepeatedNext ==
    \/ Next
    \/ rename_repeated

RepeatedSpec == Init /\ [][RepeatedNext]_vars

\* ------------------------------------- several processes, one journal file
\* a save that appends to the file as it is when it writes
write_appended(history_read, history_now, operation_type, operation_id, success) == save_operation_history(history_now, operation_type, <<>>, <<>>, <<>>, operation_id, success, NoError)

\* the file a save writes: the history it read with its record appended
write_whole_file(history_read, history_now, operation_type, operation_id, success) == save_operation_history(history_read, operation_type, <<>>, <<>>, <<>>, operation_id, success, NoError)

\* what the processes leave alone: everything but the journal file
savers_frame ==
    /\ pc = "idle"
    /\ UNCHANGED <<fs, pc, nbatch, nrows, nfaults, result, unreadable>>
    /\ UNCHANGED <<csv_file, csv_result>>
    /\ UNCHANGED locals
    /\ UNCHANGED ghosts

\* save_operation_history in process p, as far as json.load
save_read(p) ==
    /\ savers_frame
    /\ savers[p].pc = "idle"
    /\ savers[p].done < MaxSaves
    /\ savers' = [savers EXCEPT ![p].pc = "read", ![p].history = ReadHistory]
    /\ UNCHANGED journal

\* the rest of it: the record is appended to the list read and the file is
\* written anew
save_write(p, operation_type, success) ==
    /\ savers_frame
    /\ savers[p].pc = "read"
    /\ journal' = write_whole_file(savers[p].history, journal, operation_type,
                                   MaxSaves * (p - 1) + savers[p].done + 1, success)
    /\ savers' = [savers EXCEPT ![p].pc = "idle", ![p].history = <<>>,
                                ![p].done = savers[p].done + 1]

SaversNext ==
    \/ \E p \in Procs : save_read(p)
    \/ \E p \in Procs, operation_type \in {"cut", "copy", "rename"}, success \in BOOLEAN :
            save_write(p, operation_type, success)

SaversSpec == Init /\ [][SaversNext]_vars

\* ------------------------------------------------------ reading a manifest
\* A field is a sequence of characters, a row a sequence of fields and a
\* manifest file a sequence of rows, as csv.reader hands them over: a blank
\* line is the row without fields.
MaxLines == 3

\* str.strip(): leading and trailing blanks removed
RECURSIVE lstrip(_)
lstrip(s) == IF s # <<>> /\ Head(s) = " " THEN lstrip(Tail(s)) ELSE s

RECURSIVE rstrip(_)
rstrip(s) == IF s # <<>> /\ s[Len(s)] = " " THEN rstrip(SubSeq(s, 1, Len(s) - 1)) ELSE s

strip(s) == rstrip(lstrip(s))

\* a field taken as it stands
unstripped(s) == s

\* the entry made of row number i
ManifestEntry(row, i, expected_columns, source_name, second) ==
    [source_name  |-> source_name,
     target_name  |-> IF Len(row) < expected_columns
                      THEN IF Len(row) = 1 THEN source_name
                           ELSE IF Len(row) > 1 THEN second ELSE source_name
                      ELSE second,
     original_row |-> row,
     row_number   |-> i]

\* the loop over enumerate(reader, 1), from row i on
RECURSIVE read_rows(_, _, _, _)
read_rows(file, i, expected_columns, trimmed) ==
    IF i > Len(file) THEN <<>>
    ELSE IF file[i] = <<>> THEN read_rows(file, i + 1, expected_columns, trimmed)
    ELSE LET row == file[i]
             source_name == IF trimmed THEN strip(row[1]) ELSE unstripped(row[1])
             second == IF Len(row) > 1
                       THEN IF trimmed THEN strip(row[2]) ELSE unstripped(row[2])
                       ELSE source_name
         IN  <<ManifestEntry(row, i, expected_columns, source_name, second)>>
                 \o read_rows(file, i + 1, expected_columns, trimmed)

\* a reader that takes the fields as they stand
read_csv_untrimmed(file, expected_columns) == LET rows == read_rows(file, 1, expected_columns, FALSE) IN [success |-> TRUE, data |-> rows, total_rows |-> Len(rows)]

\* read_csv_with_encoding_detection on a file that decodes
read_csv_with_encoding_detection(file, expected_columns) == LET rows == read_rows(file, 1, expected_columns, TRUE) IN [success |-> TRUE, data |-> rows, total_rows |-> Len(rows)]

\* the rows a manifest line may hold: blank; one field; two fields; fields
\* with blanks around them; one blank field; three fields
ManifestLines ==
    {<<>>,
     <<Nm("a")>>,
     <<Nm("a"), Nm("b")>>,
     <<<<" ", "a">>, <<"b", " ">>>>,
     <<<<" ">>>>,
     <<Nm("a"), Nm("b"), Nm("c")>>}

reader_frame ==
    /\ pc = "idle"
    /\ UNCHANGED <<fs, journal, pc, nbatch, nrows, nfaults, result, unreadable, savers>>
    /\ UNCHANGED locals
    /\ UNCHANGED ghosts

\* somebody adds a line to the manifest file
csv_append(row) ==
    /\ reader_frame
    /\ Len(csv_file) < MaxLines
    /\ csv_file' = Append(csv_file, row)
    /\ UNCHANGED csv_result

\* a driver reads the manifest, as all four do, with expected_columns=2
csv_read ==
    /\ reader_frame
    /\ csv_result' = read_csv_with_encoding_detection(csv_file, 2)
    /\ UNCHANGED csv_file

ReaderNext ==
    \/ \E row \in ManifestLines : csv_append(row)
    \/ csv_read

ReaderSpec == Init /\ [][ReaderNext]_vars

\* ------------------------------------------------------------- the claims
Last(history) == history[Len(history)]
Returned == pc = "idle"
AfterBatch == Returned /\ trail = "batch"
AfterBatchUndo == Returned /\ trail = "batch,undo"
AfterUndoCall == Returned /\ trail \in {"undo", "batch,undo", "undo,undo"}
\* a step of undo_last_operation: the one step from idle to idle
UndoStep == pc = "idle" /\ pc' = "idle"
SameAt(f, g, p) == exists(f, p) /\ exists(g, p) /\ Tree(f, p) = Tree(g, p)
Changed(f, g) == {q \in DOMAIN f \cup DOMAIN g :
                    ~(q \in DOMAIN f /\ q \in DOMAIN g /\ f[q] = g[q])}
RecordPaths(r) == SeqRange(r.source_paths) \cup SeqRange(r.target_paths)
                      \cup SeqRange(r.backup_paths)
Completed(history) == {i \in 1..Len(history) : history[i].status = "completed"}
\* the completed record closest to the end of the journal, 0 when none
Newest(history) ==
    IF Completed(history) = {} THEN 0
    ELSE CHOOSE k \in Completed(history) : \A j \in Completed(history) : j <= k

\* C1: every call to a batch driver appends exactly one record to the
\* journal: while a call runs the journal holds one record per earlier call,
\* when it has returned one per call; the record of the call that returned
\* last is completed with success = true when the except branch was not
\* reached, and failed with success = false and an error message when it was.
C1_OneRecordPerCall ==
    /\ Len(journal) = (IF Returned THEN nbatch ELSE nbatch - 1)
    /\ AfterBatch =>
          IF raised
          THEN /\ Last(journal).status = "failed"
               /\ ~Last(journal).success
               /\ Last(journal).error_message # NoError
          ELSE /\ Last(journal).status = "completed"
               /\ Last(journal).success

\* two calls have returned, the first with an exception, the second without
C1_Witness ==
    /\ AfterBatch
    /\ Len(journal) = 2
    /\ journal[1].status = "failed" /\ journal[1].error_message # NoError
    /\ ~raised /\ journal[2].status = "completed"

\* C2: after a cut or rename batch, whether it ran to the end or raised
\* part-way, and an undo right after it, none of whose calls raised for an
\* outside reason, every source path the batch left empty holds an item again.
C2_RemovedItemsPutBack ==
    (AfterBatchUndo /\ ~undo_fault /\ Last(journal).type \in {"cut", "rename"}) =>
        \A q \in removed : exists(fs, q)

\* C3: a step of undo changes no record but the completed record closest to
\* the end of the journal, adds and removes no record, and changes the
\* filesystem only at the paths of that record.
C3_UndoActsOnNewestCompleted ==
    [][UndoStep =>
         LET k == Newest(journal)
         IN  /\ Len(journal') = Len(journal)
             /\ \A i \in 1..Len(journal) : i # k => journal'[i] = journal[i]
             /\ k = 0 => fs' = fs
             /\ k > 0 => \A q \in Changed(fs, fs') :
                            \E p \in RecordPaths(journal[k]) :
                                IsPrefix(p, q) \/ IsPrefix(q, p)]_vars

\* undo has passed over a failed record and undone the completed one before it
C3_Witness ==
    /\ AfterUndoCall
    /\ Len(journal) = 2
    /\ journal[2].status = "failed"
    /\ undo_sel = 1 /\ journal[1].status = "undone"
    /\ undo_changed

C5_SelectedRecordUndone ==
    (AfterUndoCall /\ undo_sel > 0) =>
        /\ journal[undo_sel].status = "undone"
        /\ journal[undo_sel].undo_timestamp

\* C5 (amended): the record undo selected is undone, with an undo_timestamp,
\* when the call returns having reversed at least one index (it returns
\* true), and a later call does not select it.
C5_ReversedRecordUndone ==
    (AfterUndoCall /\ undo_sel > 0 /\ undo_ret) =>
        /\ journal[undo_sel].status = "undone"
        /\ journal[undo_sel].undo_timestamp
        /\ Newest(journal) # undo_sel

\* undo reversed one index of a record of two and failed on the other
C5_Witness ==
    /\ AfterUndoCall /\ undo_sel > 0 /\ undo_ret
    /\ Len(journal[undo_sel].target_paths) = 2
    /\ \E i \in 1..2 : exists(fs, journal[undo_sel].target_paths[i])
    /\ journal[undo_sel].status = "undone"

FilesUnder(f, p) == {q \in Under(f, p) : isfile(f, q)}

\* C6: after a copy-mode batch that completed and an undo right after it, in
\* which no call raised for an outside reason, the destination holds the
\* files it held when the batch began, with their content (directories the
\* batch created aside), and the source tree is as it was.
C6_CopyUndoRestoresDestination ==
    (AfterBatchUndo /\ ~undo_fault /\ ~raised /\ Last(journal).type = "copy") =>
        /\ Restrict(fs, FilesUnder(fs, DST)) = Restrict(fs0, FilesUnder(fs0, DST))
        /\ Restrict(fs, Under(fs, SRC)) = Restrict(fs0, Under(fs0, SRC))

\* C7: after a cut-mode batch that completed having moved an item and an
\* undo right after it, in which no call raised for an outside reason, every
\* source path of the record holds what it held when the batch began, no
\* target path of the record exists, and the record is undone with one
\* backup path per source path.
C7_CutUndoRestoresSources ==
    (AfterBatchUndo /\ ~undo_fault /\ ~raised /\ Last(journal).type = "cut"
                    /\ Len(Last(journal).source_paths) > 0) =>
        /\ \A i \in 1..Len(Last(journal).source_paths) :
               SameAt(fs, fs0, Last(journal).source_paths[i])
        /\ \A i \in 1..Len(Last(journal).target_paths) :
               ~exists(fs, Last(journal).target_paths[i])
        /\ Last(journal).status = "undone"
        /\ Len(Last(journal).backup_paths) = Len(Last(journal).source_paths)

\* C8: every record of the journal has as many target paths as source
\* paths and, when it is a cut or rename record, as many backup paths, the
\* backup at index i being named after the source at index i.
C8_RecordArraysAligned ==
    \A k \in 1..Len(journal) :
        /\ Len(journal[k].source_paths) = Len(journal[k].target_paths)
        /\ journal[k].type \in {"cut", "rename"} =>
              /\ Len(journal[k].backup_paths) = Len(journal[k].source_paths)
              /\ \A i \in 1..Len(journal[k].backup_paths) :
                    \E n \in 1..Len(basename(journal[k].backup_paths[i])) :
                        journal[k].backup_paths[i]
                            = BackupName(journal[k].source_paths[i], n)

\* the paths outside the staging area that a step removes
Gone(f, g) == {q \in DOMAIN f : ~IsPrefix(TEMP_BACKUP_DIR, q) /\ q \notin DOMAIN g}

\* C9: a step of a cut or rename batch that removes a path outside the
\* staging area is the move of the item in hand: a backup of the item exists
\* in the staging area with the content of the source, its path is in
\* backup_paths, and every path removed is the source item or is under it.
C9_BackupStagedBeforeMove ==
    [][(args.driver # "none" /\ args.cut_mode /\ Gone(fs, fs') # {}) =>
          /\ pc = "move"
          /\ exists(fs, cur.backup)
          /\ cur.backup \in SeqRange(backup_paths)
          /\ Tree(fs, cur.backup) = Tree(fs, cur.source)
          /\ \A q \in Gone(fs, fs') : IsPrefix(cur.source, q)]_vars

\* a cut batch has moved an item: the source is gone, its backup is staged
C9_Witness ==
    /\ pc = "loop" /\ args.cut_mode
    /\ Len(copied) > 0 /\ Len(backup_paths) = Len(copied)
    /\ ~exists(fs, source_paths[Len(source_paths)])
    /\ exists(fs, backup_paths[Len(backup_paths)])
    /\ exists(fs, copied[Len(copied)])

\* C10: when the move of a cut or rename item raised after its backup was
\* staged, the batch returns with the item at its source path, with the
\* content it had when the backup was staged, if moving the backup back did
\* not raise, and with the backup in the staging area if it did.
C10_FailedMoveRestoresSource ==
    (AfterBatch /\ mvfail # NoFail) =>
        IF ~mvfail.restore_raised
        THEN exists(fs, mvfail.source) /\ Tree(fs, mvfail.source) = mvfail.content
        ELSE exists(fs, mvfail.backup)

\* C11 as stated: when the move of an item raised after its backup was
\* staged, the driver call raises to its caller.
C11_MoveErrorReachesCaller ==
    (AfterBatch /\ mvfail # NoFail) => result.raised

\* C11: when the move of an item raised after its backup was staged, the
\* driver catches the error itself: the record of the batch is in the journal
\* with status failed and the message of the error, and the call returns to
\* its caller, without raising, the targets transferred before the failure,
\* which are the targets of the record.
C11_MoveErrorJournaledNotRaised ==
    (AfterBatch /\ mvfail # NoFail) =>
        /\ ~result.raised
        /\ journal # <<>>
        /\ Last(journal).id = nbatch
        /\ Last(journal).status = "failed"
        /\ Last(journal).error_message = "move raised"
        /\ result.value = Last(journal).target_paths

\* a batch whose second item failed in its move returned the first target
C11_Witness ==
    /\ AfterBatch
    /\ mvfail # NoFail
    /\ ~result.raised
    /\ Len(result.value) = 1
    /\ Last(journal).status = "failed"

\* the failures of an item before its backup is staged
ItemFailures == {"copy raised", "makedirs raised", "backup raised"}

\* C12 as stated: a failure of an item before its backup is staged never
\* makes the driver abandon the manifest rows that follow the item.
C12_ItemFailureSkipsItemOnly ==
    ~(pc = "finally" /\ error_message \in ItemFailures /\ Len(todo) > 1)

\* C12: a failure of an item before its backup is staged (the copy of copy
\* mode, the creation of the destination directory, the staging itself) is
\* raised again by the item and ends the batch: the driver leaves its loop
\* with the item and the rows after it unprocessed, changes nothing more,
\* journals the record as failed with the targets transferred so far and
\* returns those targets without raising.
C12_ItemFailureEndsBatch ==
    [][/\ (pc = "loop" /\ error_message' \in ItemFailures) =>
            /\ pc' = "finally"
            /\ todo # <<>>
            /\ UNCHANGED <<todo, copied>>
       /\ (pc = "finally" /\ error_message \in ItemFailures) =>
            /\ pc' = "idle"
            /\ fs' = fs
            /\ Last(journal').status = "failed"
            /\ Last(journal').error_message = error_message
            /\ Last(journal').target_paths = copied
            /\ result' = [raised |-> FALSE, value |-> copied]]_vars

\* the copy of the first of two rows raised: the second row is abandoned
C12_Witness ==
    /\ pc = "finally"
    /\ error_message = "copy raised"
    /\ Len(todo) = 2
    /\ copied = <<>>

\* the source item of a manifest row is not found by the running driver
NotFound(f, row) ==
    IF args.driver = "search"
    THEN MatchingFiles(f, args.source, row.source_name) = {}
    ELSE ~isfile(f, row.source_name)

\* C13: a manifest row of the search, rename or path-list driver whose source
\* item is not found is passed over: the step leaves the filesystem and the
\* lists alone, raises nothing and goes on to the next row; and a loop that
\* runs out of rows journals its record as completed.
C13_NotFoundRowPassedOver ==
    [][/\ (/\ pc = "loop" /\ todo # <<>>
            /\ args.driver \in {"search", "rename", "csv"}
            /\ NotFound(fs, Head(todo))) =>
                /\ pc' = "loop"
                /\ todo' = Tail(todo)
                /\ UNCHANGED <<fs, copied, source_paths, backup_paths, error_message>>
       /\ (pc = "loop" /\ todo = <<>>) =>
                /\ pc' = "idle"
                /\ Last(journal').status = "completed"
                /\ ~result'.raised]_vars

\* the first of two rows was not found and the second, which is, has been
\* transferred
C13_Witness ==
    /\ pc = "loop"
    /\ args.driver \in {"search", "rename", "csv"}
    /\ Len(args.rows) = 2
    /\ NotFound(fs0, args.rows[1])
    /\ todo = <<>>
    /\ Len(copied) = 1

\* the sibling of path p with the copy suffix of n
Sibling(p, n) == join(dirname(p), CopyName(basename(p), n))

\* the smallest n >= 1 for which the sibling of p with suffix n does not exist
SmallestFree(f, p) ==
    CHOOSE n \in 1..(Cardinality(DOMAIN f) + 1) :
        /\ ~exists(f, Sibling(p, n))
        /\ \A m \in 1..(n - 1) : exists(f, Sibling(p, m))

\* the filesystem with a file created at path p
Created(f, p) == [q \in DOMAIN f \cup {p} |-> IF q = p THEN "x" ELSE f[q]]

\* C14: under the copy policy, for a target that exists, resolve_conflict
\* returns the sibling with the smallest suffix n >= 1 that does not exist;
\* the path returned does not exist; and once it has been created, resolving
\* again returns the sibling with the next free, larger suffix.
C14_CopyPolicyNextFreeSibling ==
    \A p \in DOMAIN fs, is_folder \in BOOLEAN :
        LET r == resolve_conflict(fs, None, p, "copy", is_folder)
            g == Created(fs, r)
            r2 == resolve_conflict(g, None, p, "copy", is_folder)
        IN  /\ r = Sibling(p, SmallestFree(fs, p))
            /\ ~exists(fs, r)
            /\ r2 = Sibling(p, SmallestFree(g, p))
            /\ SmallestFree(g, p) > SmallestFree(fs, p)
            /\ ~exists(g, r2)

\* a driver under the copy policy has resolved a target to its second copy,
\* the first being there already
C14_Witness ==
    /\ pc # "idle"
    /\ args.conflict_mode = "copy"
    /\ \E i \in DOMAIN copied, p \in DOMAIN fs :
          /\ copied[i] = Sibling(p, 2)
          /\ exists(fs, Sibling(p, 1))
          /\ exists(fs, copied[i])

\* the paths that do not exist, one name below a path that does
AbsentPaths(f) ==
    {join(q, nm) : q \in DOMAIN f, nm \in {a, d, Nm("b"), Nm("n")}} \ DOMAIN f

\* C15: for each of the four policies and for a string that is none of them,
\* for files and for folders, resolve_conflict returns the target path itself
\* when the target does not exist.
C15_AbsentTargetUnchanged ==
    \A p \in AbsentPaths(fs), conflict_mode \in CONFLICT_MODES \cup {"other"},
       is_folder \in BOOLEAN, source_path \in {None} \cup DOMAIN fs :
        resolve_conflict(fs, source_path, p, conflict_mode, is_folder) = p

\* a search under the skip policy has placed an item at a target that was
\* not there, under the name the manifest gave
C15_Witness ==
    /\ pc # "idle"
    /\ args.driver = "search"
    /\ args.conflict_mode = "skip"
    /\ copied = <<join(args.target, Nm("b"))>>
    /\ ~exists(fs0, join(args.target, Nm("b")))
    /\ exists(fs, join(args.target, Nm("b")))

\* the destination path the running driver computes for a row
DestOf(row) ==
    CASE args.driver = "search" -> join(args.target, row.target_name)
      [] args.driver = "csv" -> join(row.target_name, basename(row.source_name))
      [] args.driver = "rename" -> row.target_name
      [] args.driver = "extract" -> row.dest_path

\* C16: under the skip policy the step of a driver on a row whose destination
\* exists changes nothing in the filesystem (the destination and the source
\* stay as they are, no backup is staged, in copy mode and in cut mode) and
\* lists nothing, and goes on to the next row; the lists the batch returns
\* and journals are the lists of the rows transferred.
C16_SkipLeavesItemAlone ==
    [][/\ (/\ pc = "loop" /\ todo # <<>>
            /\ args.conflict_mode = "skip"
            /\ exists(fs, DestOf(Head(todo)))) =>
                /\ fs' = fs
                /\ pc' = "loop"
                /\ todo' = Tail(todo)
                /\ UNCHANGED <<cur, copied, source_paths, backup_paths>>
       /\ (pc = "loop" /\ todo = <<>> /\ args.conflict_mode = "skip") =>
                /\ Last(journal').target_paths = copied
                /\ Last(journal').source_paths = source_paths
                /\ Len(Last(journal').backup_paths) \in {0, Len(copied)}
                /\ result'.value = copied]_vars

\* a cut search under the skip policy has skipped the row whose destination
\* exists and moved the item of the other row
C16_Witness ==
    /\ pc = "loop" /\ todo = <<>>
    /\ args.driver = "search" /\ args.cut_mode /\ args.conflict_mode = "skip"
    /\ args.rows = <<Row(Nm("A"), Nm("b")), Row(a, a)>>
    /\ copied = <<join(DST, Nm("b"))>>
    /\ Len(source_paths) = 1 /\ Len(backup_paths) = 1
    /\ exists(fs0, join(DST, a)) /\ Tree(fs, join(DST, a)) = Tree(fs0, join(DST, a))
    /\ MatchingFiles(fs, SRC, a) # {}

\* the destination the running driver computes for a row of its manifest
ManifestDest(row) ==
    IF args.driver = "extract" THEN join(args.target, row.target_name)
    ELSE DestOf(row)

\* the source item of a row of the manifest is found in filesystem f
ManifestFound(f, row) ==
    IF args.driver = "extract"
    THEN \E q \in DOMAIN f : /\ isdir(f, q)
                              /\ IsPrefix(args.source, q) /\ Len(q) > Len(args.source)
                              /\ lower(basename(q)) = lower(row.source_name)
    ELSE ~NotFound(f, row)

\* every item the manifest finds when the batch begins has its destination
\* there already, and at least one item is found
AllFoundSkipped ==
    /\ args.conflict_mode = "skip"
    /\ \E i \in DOMAIN args.rows : ManifestFound(fs0, args.rows[i])
    /\ \A i \in DOMAIN args.rows :
          ManifestFound(fs0, args.rows[i]) => exists(fs0, ManifestDest(args.rows[i]))

\* C17: a batch under the skip policy in which every item found has its
\* destination already ends its loop with nothing listed, adds one record
\* to the journal, with status completed and empty source, target and backup
\* path arrays, and returns the empty list.
C17_AllSkippedJournaledEmpty ==
    [][(pc \in {"loop", "finally"} /\ pc' = "idle" /\ AllFoundSkipped) =>
            /\ pc = "loop"
            /\ Len(journal') = Len(journal) + 1
            /\ Last(journal').status = "completed"
            /\ Last(journal').source_paths = <<>>
            /\ Last(journal').target_paths = <<>>
            /\ Last(journal').backup_paths = <<>>
            /\ result' = [raised |-> FALSE, value |-> <<>>]]_vars

\* a cut batch of two rows under the skip policy, both found and both with
\* their destination there, has ended its loop
C17_Witness ==
    /\ pc = "loop" /\ todo = <<>>
    /\ AllFoundSkipped
    /\ args.cut_mode
    /\ Len(args.rows) = 2
    /\ \A i \in DOMAIN args.rows : ManifestFound(fs0, args.rows[i])
    /\ copied = <<>>

\* the source items the step of the running driver can have in hand
ItemSources ==
    IF pc = "move" THEN {cur.source}
    ELSE IF todo = <<>> THEN {}
    ELSE IF args.driver = "search"
    THEN MatchingFiles(fs, args.source, Head(todo).source_name)
    ELSE IF args.driver = "extract" THEN {Head(todo).source_folder}
    ELSE {Head(todo).source_name}

\* the paths a step has to leave as they are: all that exist, but for the
\* source item in hand and the staging area
Standing ==
    {q \in DOMAIN fs : /\ ~IsPrefix(TEMP_BACKUP_DIR, q)
                       /\ \A s \in ItemSources : ~IsPrefix(s, q)}

\* C18: under the copy policy, in copy mode and in cut mode, no step of a
\* batch changes or removes a path that exists, the source item in hand and
\* the staging area apart; an item whose destination exists is placed at a
\* sibling of the destination with a copy suffix, a path that did not exist,
\* with the content of the source item; and the targets the batch journals
\* and returns are the paths the items were placed at.
C18_CopyPolicyKeepsDestination ==
    [][(pc \in {"loop", "move"} /\ args.conflict_mode = "copy") =>
        /\ \A q \in Standing : q \in DOMAIN fs' /\ fs'[q] = fs[q]
        /\ (pc' # "idle" /\ copied' # copied /\ exists(fs, DestOf(Head(todo)))) =>
              LET r == Last(copied')
                  source_item == Last(source_paths')
              IN  /\ \E n \in 1..Cardinality(DOMAIN fs) :
                        r = Sibling(DestOf(Head(todo)), n)
                  /\ ~exists(fs, r)
                  /\ exists(fs', r)
                  /\ Tree(fs', r) = Tree(fs, source_item)
        /\ pc' = "idle" =>
              /\ Last(journal').target_paths = copied
              /\ result'.value = copied]_vars

\* a cut batch under the copy policy has placed an item whose destination
\* existed at the first copy sibling, the destination being as it was
C18_Witness ==
    /\ pc = "loop"
    /\ args.cut_mode /\ args.conflict_mode = "copy"
    /\ args.driver = "search"
    /\ copied = <<Sibling(join(DST, a), 1)>>
    /\ fs[join(DST, a)] = "y"
    /\ fs[Sibling(join(DST, a), 1)] = "x"
    /\ ~exists(fs, join(SRC, a))

\* C19: under the overwrite policy, in copy mode and in cut mode, the step
\* that transfers a file whose destination is an existing file leaves the
\* content of the source file at the destination path, creates no sibling
\* of the destination with a copy suffix, and lists the destination path
\* itself as the target; the targets the batch journals and returns are the
\* paths listed.
C19_OverwriteReplacesFile ==
    [][(pc \in {"loop", "move"} /\ args.conflict_mode = "overwrite"
            /\ args.driver \in {"search", "csv", "rename"}) =>
        /\ (/\ pc' # "idle" /\ copied' # copied
             /\ isfile(fs, DestOf(Head(todo)))) =>
              LET dest == DestOf(Head(todo))
                  source_item == Last(source_paths')
              IN  /\ copied' = Append(copied, dest)
                  /\ isfile(fs', dest)
                  /\ fs'[dest] = fs[source_item]
                  /\ \A n \in 1..Cardinality(DOMAIN fs') :
                        exists(fs', Sibling(dest, n)) => exists(fs, Sibling(dest, n))
        /\ pc' = "idle" =>
              /\ Last(journal').target_paths = copied
              /\ result' = [raised |-> FALSE, value |-> copied]]_vars

\* a cut batch under the overwrite policy has moved a file onto the file
\* that was at its destination
C19_Witness ==
    /\ pc = "loop"
    /\ args.cut_mode /\ args.conflict_mode = "overwrite"
    /\ args.driver = "search"
    /\ copied = <<join(DST, a)>>
    /\ fs0[join(DST, a)] = "y"
    /\ fs[join(DST, a)] = "x"
    /\ ~exists(fs, join(SRC, a))
    /\ ~exists(fs, Sibling(join(DST, a), 1))

\* C20: in the extract driver under the overwrite policy, in copy mode and
\* in cut mode, the step that transfers a folder whose destination is an
\* existing folder lists the destination path as the target and leaves
\* there exactly the content of the source folder, nothing of the earlier
\* destination subtree being left.
C20_OverwriteReplacesFolder ==
    [][(/\ pc \in {"loop", "move"} /\ args.driver = "extract"
        /\ args.conflict_mode = "overwrite"
        /\ pc' # "idle" /\ copied' # copied
        /\ isdir(fs, Head(todo).dest_path)) =>
            /\ Last(copied') = Head(todo).dest_path
            /\ Tree(fs', Head(todo).dest_path) = Tree(fs, Last(source_paths'))]_vars

\* f has no path p, and g has a file there with the content given
PlacedAt(f, g, p, content) == ~exists(f, p) /\ isfile(g, p) /\ g[p] = content

\* g holds what f held under target, and every entry f held under source:
\* a folder as a folder at the same relative path, a file at the same
\* relative path when nothing was there, or at a copy sibling of it when a
\* counterpart was met there (one f held, or one the merge had just placed)
MergedInto(f, g, source, target) ==
    /\ \A q \in Under(f, target) : q \in DOMAIN g /\ g[q] = f[q]
    /\ \A x \in Under(f, source) :
          LET t == Rebase(x, source, target)
          IN  IF isdir(f, x) THEN isdir(g, t)
              ELSE \/ PlacedAt(f, g, t, f[x])
                   \/ /\ isfile(g, t)
                      /\ \E n \in 1..Cardinality(DOMAIN g) :
                            PlacedAt(f, g, Sibling(t, n), f[x])

\* C21: in the extract driver under the merge policy, in copy mode and in
\* cut mode, the step that transfers a folder whose destination is an
\* existing folder leaves in the destination folder the entries it held and
\* the entries of the source folder at the same relative paths (a file that
\* meets a counterpart at a copy sibling).
C21_MergeUnionsFolder ==
    [][(/\ pc \in {"loop", "move"} /\ args.driver = "extract"
        /\ args.conflict_mode = "merge"
        /\ pc' # "idle" /\ copied' # copied
        /\ isdir(fs, Head(todo).dest_path)) =>
            /\ Last(copied') = Head(todo).dest_path
            /\ MergedInto(fs, fs', Last(source_paths'), Head(todo).dest_path)]_vars

\* no file under source has a counterpart under target
NoOverlap(f, source, target) ==
    \A x \in Under(f, source) : isfile(f, x) => ~exists(f, Rebase(x, source, target))

\* C22: a merge_folders(source, target) that returns has changed or removed
\* nothing that existed, under target, under source or elsewhere, and has
\* added paths under target only; every file under source is under target,
\* at its relative path or, where a counterpart was met, at a copy sibling;
\* and when no file under source has a counterpart under target the result
\* is exactly the union of the two trees.
C22_MergeKeepsBothTrees ==
    \A s \in {q \in Under(fs, SRC) : isdir(fs, q)},
       t \in {q \in Under(fs, DST) : isdir(fs, q)} :
        LET r == merge_folders(fs, s, t)
        IN  r.ok =>
              /\ MergedInto(fs, r.fs, s, t)
              /\ \A q \in DOMAIN fs : q \in DOMAIN r.fs /\ r.fs[q] = fs[q]
              /\ \A q \in DOMAIN r.fs \ DOMAIN fs : IsPrefix(t, q)
              /\ NoOverlap(fs, s, t) =>
                    /\ DOMAIN r.fs =
                          DOMAIN fs \cup {Rebase(x, s, t) : x \in Under(fs, s)}
                    /\ \A x \in Under(fs, s) :
                          isfile(fs, x) => r.fs[Rebase(x, s, t)] = fs[x]

\* the extract driver in copy mode has merged src/d into dst/d: the file a
\* of the source is at the copy sibling of the file a the destination held
C22_Witness ==
    /\ pc = "loop"
    /\ args.driver = "extract" /\ ~args.cut_mode /\ args.conflict_mode = "merge"
    /\ copied # <<>> /\ copied[1] = join(DST, d)
    /\ isfile(fs0, join(join(DST, d), a))
    /\ fs[join(join(DST, d), a)] = fs0[join(join(DST, d), a)]
    /\ isfile(fs, join(join(SRC, d), a))
    /\ PlacedAt(fs0, fs, Sibling(join(join(DST, d), a), 1), fs[join(join(SRC, d), a)])

\* C23: for a target that exists, resolve_conflict with a policy that is
\* none of skip, overwrite, copy and merge, and with merge for an item that
\* is not a folder, returns the path it returns under the copy policy, the
\* sibling with the smallest free copy suffix.
C23_UnknownPolicyIsCopy ==
    \A p \in DOMAIN fs, is_folder \in BOOLEAN :
        LET by_copy == resolve_conflict(fs, None, p, "copy", is_folder)
        IN  /\ by_copy = Sibling(p, SmallestFree(fs, p))
            /\ resolve_conflict(fs, None, p, "other", is_folder) = by_copy
            /\ resolve_conflict(fs, None, p, "", is_folder) = by_copy
            /\ resolve_conflict(fs, None, p, "merge", FALSE) = by_copy

\* a search under the merge policy has placed a file, whose destination
\* existed, at the first copy sibling
C23_Witness ==
    /\ pc = "loop"
    /\ args.driver = "search" /\ args.conflict_mode = "merge"
    /\ copied = <<Sibling(join(DST, a), 1)>>
    /\ exists(fs0, join(DST, a))
    /\ PlacedAt(fs0, fs, Sibling(join(DST, a), 1), "x")

\* C24: with no failure from outside, no step of a batch, of undo or of a
\* cleanup deletes a staged backup that the most recent completed record of
\* the journal lists when the step is over.
C24_ListedBackupNeverDeleted ==
    [][nfaults' = 0 =>
        \A b \in recent_backups(journal', ~unreadable') :
            exists(fs, b) => exists(fs', b)]_vars


\* the backup paths that the most recent completed record of the journal file
\* lists, read off the records themselves
ListedByRecent ==
    LET done == {i \in DOMAIN journal : journal[i].status = "completed"}
    IN  IF unreadable \/ done = {} THEN {}
        ELSE SeqRange(journal[CHOOSE i \in done : \A j \in done : j <= i].backup_paths)

\* C25: between two operations, the cleanup that keeps the recent backups
\* leaves in the staging area exactly the entries that were there and that the
\* most recent completed record lists, each one as it was, and touches nothing
\* outside the staging area.
C25_KeepRecentKeepsExactlyListed ==
    Returned =>
        LET g == cleanup_backup_files(fs, journal, ~unreadable, TRUE)
        IN  /\ listdir(g, TEMP_BACKUP_DIR)
                    = listdir(fs, TEMP_BACKUP_DIR) \cap ListedByRecent
            /\ \A e \in listdir(g, TEMP_BACKUP_DIR) : Tree(g, e) = Tree(fs, e)
            /\ Without(g, Under(g, TEMP_BACKUP_DIR))
                    = Without(fs, Under(fs, TEMP_BACKUP_DIR))

\* two completed records with different backups: the cleanup has deleted the
\* backup of the older one and kept the backup of the newer one
C25_Witness ==
    /\ ~unreadable
    /\ Len(journal) = 2
    /\ \A i \in 1..2 : journal[i].status = "completed" /\ Len(journal[i].backup_paths) > 0
    /\ SeqRange(journal[1].backup_paths) \cap SeqRange(journal[2].backup_paths) = {}
    /\ \A b \in SeqRange(journal[1].backup_paths) : ~exists(fs, b)
    /\ \A b \in SeqRange(journal[2].backup_paths) : exists(fs, b)

\* the largest number of records asked to be kept
MaxKeep == 3

\* the newest n records of a history, in their order
NewestRecords(history, n) == [i \in 1..n |-> history[Len(history) - n + i]]

\* C26: for every number K of records to keep, cleanup_old_history(K) leaves
\* the newest min(length, K) records of the journal, in order and unmodified.
C26_PruneKeepsNewest ==
    (Returned /\ ~unreadable) =>
        \A K \in 0..MaxKeep :
            cleanup_old_history(journal, K)
                = NewestRecords(journal, IF Len(journal) < K THEN Len(journal) ELSE K)

\* the same for K of at least one
C26_PruneKeepsNewestFromOne ==
    (Returned /\ ~unreadable) =>
        \A K \in 1..MaxKeep :
            cleanup_old_history(journal, K)
                = NewestRecords(journal, IF Len(journal) < K THEN Len(journal) ELSE K)

\* C27: while the journal file cannot be parsed, an undo call returns false
\* and leaves the filesystem and the journal file as they are, and the batch
\* that next writes the journal leaves in it one record, its own.
C27_UnreadableJournalStartsOver ==
    [][unreadable =>
        /\ undo_last_operation =>
                fs' = fs /\ journal' = journal /\ unreadable' /\ ~undo_ret'
        /\ ~unreadable' =>
                /\ Len(journal') = 1
                /\ journal'[1].source_paths = source_paths
                /\ journal'[1].target_paths = copied
                /\ journal'[1].status \in {"completed", "failed"}]_vars

\* a record was on file, the file was damaged, and the second batch has
\* written a journal that holds one record
C27_Witness ==
    /\ Returned
    /\ nbatch = 2
    /\ ~unreadable
    /\ Len(journal) = 1

\* an undo call has met a damaged journal that held a completed record
C27_UndoMetDamagedJournal ==
    /\ unreadable
    /\ trail \in {"undo", "batch,undo", "undo,undo"}
    /\ LastCompleted(journal) # 0
    /\ undo_sel = 0
    /\ ~undo_ret

\* index i of the record op is restored between f and g: the backup has left
\* the staging area and stands at source_paths[i], and target_paths[i] is
\* gone unless it is the source path
RestoredAt(f, g, op, i) ==
    LET backup_path == op.backup_paths[i]
        source_path == op.source_paths[i]
        target_path == op.target_paths[i]
    IN  /\ exists(f, backup_path)
        /\ ~exists(g, backup_path)
        /\ exists(g, source_path)
        /\ Tree(g, source_path) = Tree(f, backup_path)
        /\ target_path # source_path => ~exists(g, target_path)

\* every index from i to n taken in turn, whatever became of the ones before:
\* the filesystem at the end, the indices counted as restored, and whether
\* each of them is restored; with files_only, the indices whose source path
\* is a directory when their turn comes are not looked at
RECURSIVE EveryIndex(_, _, _, _, _, _, _)
EveryIndex(f, op, i, n, fault_at, raises, files_only) ==
    IF i > n THEN [fs |-> f, restored |-> {}, ok |-> TRUE]
    ELSE LET r == UndoMoved(f, op, i, IF i = fault_at THEN raises ELSE "none")
             rest == EveryIndex(r.fs, op, i + 1, n, fault_at, raises, files_only)
             looked_at == r.ok /\ ~(files_only /\ isdir(f, op.source_paths[i]))
         IN  [fs |-> rest.fs,
              restored |-> rest.restored \cup (IF r.ok THEN {i} ELSE {}),
              ok |-> rest.ok /\ (looked_at => RestoredAt(f, r.fs, op, i))]

\* what an undo step on a cut or rename record does, index by index
UndoneIndexByIndex(files_only) ==
    (UndoStep /\ undo_sel' # 0 /\ journal[undo_sel'].type \in {"cut", "rename"}) =>
        LET op == journal[undo_sel']
            n == Min(Len(op.backup_paths), Len(op.target_paths))
        IN  \E fault_at \in 0..n, raises \in {"move", "remove"} :
                LET e == EveryIndex(fs, op, 1, n, fault_at, raises, files_only)
                IN  /\ (fault_at > 0) = undo_fault'
                    /\ fs' = e.fs
                    /\ e.ok
                    /\ undo_ret' = (e.restored # {})

\* C28: an undo call on a cut or rename record takes every index in turn,
\* a failure at one index notwithstanding; it returns true exactly when one
\* index or more was restored; at each restored index the backup stands at
\* the source path and the target path is gone when it differs from it.
C28_UndoTakesEveryIndex == [][UndoneIndexByIndex(FALSE)]_vars

\* the same, the indices whose source path is a directory again set aside
C28_UndoTakesEveryIndexOfFiles == [][UndoneIndexByIndex(TRUE)]_vars

\* C29: when the move of a cut or rename item returns and the check that
\* follows it fails, the item is listed all the same and the batch goes on
\* with its next row; a batch that ends with no exception is journaled as
\* completed, success true, with every listed item among its target paths.
C29_UnverifiedMoveStillListed ==
    [][/\ (/\ pc = "move"
            /\ nfaults' = nfaults
            /\ shutil_move(fs, cur.source, cur.resolved).ok
            /\ ~MoveVerified(shutil_move(fs, cur.source, cur.resolved).fs,
                             cur.source, cur.resolved)) =>
                /\ pc' = "loop"
                /\ fs' = shutil_move(fs, cur.source, cur.resolved).fs
                /\ copied' = Append(copied, cur.resolved)
                /\ todo' = Tail(todo)
                /\ error_message' = error_message
       /\ (pc = "loop" /\ pc' = "idle") =>
                /\ Last(journal').status = "completed"
                /\ Last(journal').success
                /\ Last(journal').target_paths = copied]_vars

\* a completed rename record lists an item whose target is its source path:
\* the move returned and the check after it failed
C29_Witness ==
    /\ Returned
    /\ journal # <<>>
    /\ Last(journal).type = "rename"
    /\ Last(journal).status = "completed"
    /\ Last(journal).success
    /\ \E i \in DOMAIN Last(journal).target_paths :
            /\ i \in DOMAIN Last(journal).source_paths
            /\ Last(journal).target_paths[i] = Last(journal).source_paths[i]
            /\ exists(fs, Last(journal).target_paths[i])

\* g comes before q in every top-down walk: it lies in a directory above the
\* directory of q
WalkedBefore(g, q) ==
    /\ Len(g) < Len(q)
    /\ SubSeq(q, 1, Len(g) - 1) = SubSeq(g, 1, Len(g) - 1)

\* C30: while search-and-relocate works on a manifest entry, at most one
\* source file is taken for it, a file of the source tree that bears the
\* entry's source name ignoring case and has no such file walked before it;
\* every other file bearing that name stays as it is, whether the step
\* succeeds or fails.
C30_FirstMatchOnly ==
    [][(args.driver = "search" /\ pc \in {"loop", "move"} /\ todo # <<>>) =>
        LET M == MatchingFiles(fs, args.source, Head(todo).source_name)
        IN  /\ pc = "move" => source_paths' = source_paths
            /\ source_paths' # source_paths =>
                    /\ Len(source_paths') = Len(source_paths) + 1
                    /\ SubSeq(source_paths', 1, Len(source_paths)) = source_paths
                    /\ Last(source_paths') \in M
                    /\ \A g \in M : ~WalkedBefore(g, Last(source_paths'))
                    /\ pc' = "move" \/ todo' = Tail(todo)
            /\ \A q \in M :
                    \/ SameAt(fs, fs', q)
                    \/ /\ \A g \in M : ~WalkedBefore(g, q)
                       /\ \A g \in M \ {q} : SameAt(fs, fs', g)
                       /\ pc = "move" => q = cur.source
                       /\ source_paths' # source_paths => q = Last(source_paths')]_vars

\* a cut search for the name a has taken src/a and left src/d/a, which bears
\* the same name, where it was
C30_Witness ==
    /\ args.driver = "search" /\ args.cut_mode
    /\ pc = "loop" /\ todo = <<>>
    /\ source_paths = <<join(SRC, a)>>
    /\ Len(copied) = 1
    /\ ~exists(fs, join(SRC, a))
    /\ isfile(fs, join(join(SRC, d), a))
    /\ fs[join(join(SRC, d), a)] = "z"

\* when an extraction that met no failure from outside and skips nothing
\* returns, every directory that bore a manifest name when it began is among
\* the sources it transferred (cut_modes: the modes looked at)
ExtractTookAll(cut_modes) ==
    (/\ args.driver = "extract" /\ pc \in {"loop", "finally"} /\ pc' = "idle"
     /\ args.cut_mode \in cut_modes
     /\ args.conflict_mode # "skip"
     /\ nfaults = 0
     /\ error_message \notin {"source missing", "manifest missing"}) =>
        FoundFolders(fs0, args.source, args.rows) \subseteq SeqRange(source_paths)

\* C31: whole-folder extraction transfers every directory of the source tree
\* whose name matches a manifest entry ignoring case, in copy mode and in cut
\* mode, one matching directory inside another and equal destinations
\* included.
C31_EveryMatchTransferred == [][ExtractTookAll(BOOLEAN)]_vars

\* the same in copy mode alone
C31_EveryMatchCopied == [][ExtractTookAll({FALSE})]_vars

\* the batch a step belongs to: the arguments it runs with, or the ones it
\* starts with
BatchOf == IF pc = "idle" THEN args' ELSE args

\* C32: no step of a search, extraction or path-list batch in copy mode
\* changes anything in the source tree or adds an entry to the staging area,
\* whether the step succeeds or fails, and the record the batch writes lists
\* no backup.
C32_CopyModeLeavesSource ==
    [][(BatchOf.driver \in {"search", "extract", "csv"} /\ ~BatchOf.cut_mode) =>
        /\ exists(fs, SRC) => exists(fs', SRC) /\ Tree(fs', SRC) = Tree(fs, SRC)
        /\ listdir(fs', TEMP_BACKUP_DIR) = listdir(fs, TEMP_BACKUP_DIR)
        /\ backup_paths' = <<>>
        /\ pc' = "idle" => Last(journal').backup_paths = <<>>]_vars

\* a copy batch has transferred an item, another one failed and left its
\* destination written in part; the source tree is as it was
C32_Witness ==
    /\ AfterBatch
    /\ nbatch = 1
    /\ Last(journal).type = "copy"
    /\ Last(journal).status = "failed"
    /\ Len(Last(journal).target_paths) = 1
    /\ \E q \in DOMAIN fs : fs[q] = PARTIAL
    /\ Tree(fs, SRC) = Tree(InitFs, SRC)

\* the item a batch is at fails in the call that writes to its destination,
\* with no failure from outside, although its source is there and its
\* destination exists already
FailsOnExisting ==
    /\ pc \in {"loop", "move"} /\ pc' = "finally"
    /\ error_message' \in {"move raised", "copy raised"}
    /\ nfaults' = nfaults
    /\ todo # <<>>
    /\ exists(fs, DestOf(Head(todo)))
    /\ ItemSources # {}
    /\ \A q \in ItemSources : exists(fs, q)

\* C33: no item of a batch fails because its destination exists already,
\* whatever the driver, the mode and the policy, the source root given as
\* destination root included.
C33_ExistingDestinationNeverFails == [][~FailsOnExisting]_vars

\* the same for batches whose destination root is not their source root
C33_ExistingDestinationElsewhere ==
    [][~(FailsOnExisting /\ (args.driver = "search" => args.target # args.source))]_vars

\* the same under the policies skip and copy
C33_ExistingDestinationKept ==
    [][~(FailsOnExisting /\ args.conflict_mode \in {"skip", "copy"})]_vars

\* process p writes the journal file in this step
Writes(p) == savers[p].pc = "read" /\ savers'[p].pc = "idle"

\* C34: a save that writes the journal when no other save has written it
\* since it read it, as in every sequence of batches run one after the other,
\* keeps every record and adds one; a save that writes after another save
\* has written in between leaves the history it read plus its own record, so
\* the records written in between are lost although their batches finished.
C34_LostUpdateOnlyWhenOverlapping ==
    [][\A p \in Procs : Writes(p) =>
        /\ Len(journal') = Len(savers[p].history) + 1
        /\ SubSeq(journal', 1, Len(savers[p].history)) = savers[p].history
        /\ savers[p].history = journal =>
                SubSeq(journal', 1, Len(journal)) = journal]_vars

\* both processes have finished one save each and the journal holds one
\* record: the other one was overwritten
C34_Witness ==
    /\ \A p \in Procs : savers[p].pc = "idle" /\ savers[p].done = 1
    /\ Len(journal) = 1

\* the numbers of the rows of a manifest file that hold a field, in order
NonBlank(file) == SelectSeq([i \in 1..Len(file) |-> i], LAMBDA i : file[i] # <<>>)

\* the entries are those of the rows holding a field, in manifest order, the
\* names being what field(_) makes of the first and second field
EntriesFollowRows(file, r, field(_)) ==
    LET idx == NonBlank(file)
    IN  /\ r.success
        /\ Len(r.data) = Len(idx)
        /\ \A k \in 1..Len(idx) :
              LET row == file[idx[k]]
              IN  /\ r.data[k].source_name = field(row[1])
                  /\ r.data[k].target_name =
                        IF Len(row) = 1 THEN r.data[k].source_name ELSE field(row[2])

\* C35 as stated: the manifest reader yields one entry per row that is not
\* empty, in manifest order; the source_name is the first field, the
\* target_name the second field, or the source_name when the row has one
\* field only; empty rows yield nothing.
C35_EntriesAreTheFields ==
    EntriesFollowRows(csv_file, read_csv_with_encoding_detection(csv_file, 2), unstripped)

\* C35 amended: the same, the names being the first and the second field
\* with the blanks before and after them removed.
C35_EntriesAreTheStrippedFields ==
    EntriesFollowRows(csv_file, read_csv_with_encoding_detection(csv_file, 2), strip)

\* a manifest with an empty row, a row of one field and a row of two fields
\* that have blanks around them has been read
C35_Witness ==
    /\ csv_file = << <<>>, <<Nm("a")>>, <<<<" ", "a">>, <<"b", " ">>>> >>
    /\ csv_result = read_csv_with_encoding_detection(csv_file, 2)
    /\ csv_result.total_rows = 2
    /\ csv_result.data[2].source_name = Nm("a")
    /\ csv_result.data[2].target_name = Nm("b")

\* how often x stands in the sequence sq
Times(sq, x) == Cardinality({i \in DOMAIN sq : sq[i] = x})

\* the one target a manifest gives a source path
TargetOf(rows, source_path) == CHOOSE t \in TargetsOf(rows, source_path) : TRUE

\* a source path the batch has reason to rename: a file when the batch began
\* whose target the skip policy does not find taken
Renameable(source_path) ==
    /\ isfile(fs0, source_path)
    /\ ~(args.conflict_mode = "skip" /\ exists(fs0, TargetOf(args.rows, source_path)))

\* the step on which a rename batch that met no failure from outside returns,
\* its manifest listing some source path in several rows
RepeatedRenameReturns ==
    /\ args.driver = "rename" /\ pc \in {"loop", "finally"} /\ pc' = "idle"
    /\ nfaults = 0
    /\ \E source_path \in SourcesListed(args.rows) : TimesListed(args.rows, source_path) > 1

C36_DifferingTargetsSkipped ==
    /\ args.driver = "rename" /\ pc = "loop" /\ todo = <<>>
    /\ Cardinality(TargetsOf(args.rows, join(SRC, a))) > 1
    /\ source_paths = <<join(join(SRC, d), a)>>

\* C37: the step that stages the backup of a cut or rename item writes it to
\* a staging path at which nothing stood before, be it a backup of the same
\* batch or of an earlier one.
C37_BackupPathFree ==
    [][Len(backup_paths') = Len(backup_paths) + 1 =>
          ~exists(fs, Last(backup_paths'))]_vars

\* the fields of a record that undo may change
UndoFields == {"status", "undo_timestamp"}

\* C38: a call of undo_last_operation that returns False leaves the journal
\* as it was; one that returns True leaves as many records in the same
\* order, all of them as they were but the selected one, which was completed
\* and is now undone with an undo_timestamp, its other fields as they were.
C38_UndoChangesOneRecordOrNone ==
    [][UndoStep =>
        IF undo_ret'
        THEN /\ DOMAIN journal' = DOMAIN journal
             /\ undo_sel' \in DOMAIN journal
             /\ \A i \in DOMAIN journal \ {undo_sel'} : journal'[i] = journal[i]
             /\ journal[undo_sel'].status = "completed"
             /\ journal'[undo_sel'].status = "undone"
             /\ journal'[undo_sel'].undo_timestamp = TRUE
             /\ \A fld \in DOMAIN journal[undo_sel'] \ UndoFields :
                    journal'[undo_sel'][fld] = journal[undo_sel'][fld]
        ELSE journal' = journal /\ unreadable' = unreadable]_vars

\* an undo has returned True on a journal of two completed records: the
\* later one is undone, the earlier one still completed
C38_Witness ==
    /\ AfterUndoCall /\ undo_ret
    /\ Len(journal) = 2 /\ undo_sel = 2
    /\ journal[1].status = "completed"
    /\ journal[2].status = "undone"

\* an undo has returned False although a completed record was selected
C38_ReturnedFalseOnRecord ==
    /\ AfterUndoCall /\ ~undo_ret /\ undo_sel # 0
    /\ journal[undo_sel].status = "completed"

\* a record of which undo can restore nothing: its path arrays are empty, or
\* it is a cut or rename record none of whose backups exists
NothingToRestore(f, op) ==
    \/ op.source_paths = <<>> /\ op.target_paths = <<>> /\ op.backup_paths = <<>>
    \/ /\ op.type \in {"cut", "rename"}
       /\ \A i \in 1..Len(op.backup_paths) : ~exists(f, op.backup_paths[i])

\* C39: a call of undo_last_operation that finds the most recent completed
\* record with nothing to restore selects that record, returns False and
\* leaves the journal and the filesystem as they were; the record being
\* completed still and as unrestorable as before, every later call does the
\* same and no older completed record is reached.
C39_UnrestorableRecordBlocksUndo ==
    [][(UndoStep /\ Newest(journal) # 0
                 /\ NothingToRestore(fs, journal[Newest(journal)])) =>
          /\ undo_sel' = Newest(journal)
          /\ undo_ret' = FALSE
          /\ journal' = journal
          /\ fs' = fs
          /\ Newest(journal') = Newest(journal)
          /\ NothingToRestore(fs', journal'[Newest(journal')])]_vars

\* two undo calls in a row have returned False on the later of two completed
\* records, which lists nothing, the earlier one listing a target that exists
C39_Witness ==
    /\ Returned /\ trail = "undo,undo"
    /\ ~undo_ret /\ undo_sel = 2 /\ ~undo_changed
    /\ Len(journal) = 2
    /\ journal[1].status = "completed" /\ journal[2].status = "completed"
    /\ NothingToRestore(fs, journal[2])
    /\ journal[1].target_paths # <<>>
    /\ exists(fs, journal[1].target_paths[1])

\* the same with a cut or rename record whose backups are gone
C39_BackupsGone ==
    /\ Returned /\ trail = "undo,undo"
    /\ ~undo_ret /\ undo_sel # 0
    /\ journal[undo_sel].status = "completed"
    /\ journal[undo_sel].backup_paths # <<>>
    /\ NothingToRestore(fs, journal[undo_sel])

\* the step on which the copy into the staging area raises
BackupFails == pc = "loop" /\ pc' = "finally" /\ error_message' = "backup raised"

\* C40: the step on which staging the backup of a cut or rename item fails,
\* a backup written in part being left or not, leaves the source item at its
\* path with the content and structure it had, and lists the item in none
\* of source_paths, target_paths and backup_paths.
C40_FailedBackupLeavesSource ==
    [][BackupFails =>
        /\ \A s \in ItemSources : exists(fs', s) /\ Tree(fs', s) = Tree(fs, s)
        /\ source_paths' = source_paths
        /\ copied' = copied
        /\ backup_paths' = backup_paths]_vars

\* the lists alone: a failed backup adds the item to none of them
C40_FailedBackupNotListed ==
    [][BackupFails =>
        /\ source_paths' = source_paths
        /\ copied' = copied
        /\ backup_paths' = backup_paths]_vars
====
